---- MODULE Spec2Model ----
(***************************************************************************)
(* A model of the two concurrency-sensitive parts of coreflex_api:         *)
(*   - routers/control_bindings.py: write_control_do, the actuation lock   *)
(*     (acquire, call the gateway with no database session, release);      *)
(*   - routers/device_counters_tick.py: _tick_once, the counter tick pass  *)
(*     (rising-edge count and run-time accumulation).                      *)
(* Time is counted in clock ticks, TicksPerSec ticks to the second, so     *)
(* that the truncation int(total_seconds()) of the tick pass is visible.   *)
(***************************************************************************)
EXTENDS Integers, FiniteSets, Sequences, TLC

VARIABLES
    now,        \* the wall clock (datetime.now / NOW()), in ticks
    locks,      \* the control_action_locks table: a set of rows
    pc,         \* per write request: where write_control_do stands
    req,        \* per write request: its resolved binding, lock key, expiry
    db,         \* per write request: the request session (Depends(get_db))
    db2,        \* per write request: the release session (SessionLocal())
    result,     \* per write request: what the call returned
    posted,     \* per write request: whether it has called the gateway
    counters,   \* the device_counters table, by counter id
    devices,    \* the zhc1921_devices table, by device id
    hist,       \* per counter: what the passes observed (observation only)
    passes,     \* the number of tick passes run so far
    made,       \* the number of device_counters rows inserted so far
    txn,        \* the tick session: the pass's uncommitted UPDATEs
    runner,     \* the background task of _runner
    arg,        \* the input of a function applied on its own
    ret         \* its result

vars == <<now, locks, pc, req, db, db2, result, posted, counters, devices, hist,
          passes, made, txn, runner, arg, ret>>

lockVars == <<locks, pc, req, db, db2, result, posted>>
tickVars == <<counters, devices, hist, passes>>
\* The variables of the counter endpoints, the split pass, the runner and
\* the function checks.
otherVars == <<made, txn, runner, arg, ret>>

\* SQL NULL / Python None where a level, a count or a time is expected, and
\* where a string is.
NULL == -1
NoneStr == "None"

\* ---------------------------------------------------------------- bounds
TicksPerSec == 2
NumRequests == 2
\* The clock stops at LockMaxSec seconds in the lock protocol's runs, and
\* TickMaxSec seconds after a long stall in the tick engine's runs.
LockMaxSec == 10
TickMaxSec == 3
\* The tick engine's runs hold at most MaxPasses passes; a level-1 streak is
\* counted up to MaxStreak passes.
MaxPasses == 3
MaxStreak == 2

Max(a, b) == IF a >= b THEN a ELSE b
Min(a, b) == IF a <= b THEN a ELSE b

\* ------------------------------------------------------------ the clock
AdvanceClock(d, limit) ==
    /\ d > 0
    /\ now + d <= limit
    /\ now' = now + d

\* ====================================================================
\* routers/control_bindings.py
\* ====================================================================
Requests == 1..NumRequests

ALLOWED_FIELDS == {"do1", "do2", "do3", "do4"}

\* ACTUATION_HOLD_MS, the lock's time to live, in milliseconds.
ACTUATION_HOLD_MS == 10000

\* timedelta(milliseconds=int(ACTUATION_HOLD_MS)), in clock ticks.
HoldTicks == (ACTUATION_HOLD_MS * TicksPerSec) \div 1000

\* The tenants, and the rows of control_bindings and of zhc1921_devices the
\* write requests are run against: user 1 has claimed device "D1" and bound
\* two widgets to it; user 2 holds a binding to "D1", which it has not claimed
\* (any more), and has no binding for widget "w1".
Users == {1, 2}
WidgetIds == {"w1", "w2"}

ControlBindingRows ==
    { [user_id |-> 1, widget_id |-> "w1", bind_device_id |-> "D1", bind_field |-> "do1"],
      [user_id |-> 1, widget_id |-> "w2", bind_device_id |-> "D1", bind_field |-> "do2"],
      [user_id |-> 2, widget_id |-> "w2", bind_device_id |-> "D1", bind_field |-> "do1"] }

DeviceClaims == [D1 |-> 1, d1 |-> 2]

\* str.lower() on the device ids and fields in use.
Lower(s) ==
    CASE s = "D1" -> "d1"
      [] s = "IN2" -> "in2"
      [] s = "Main" -> "main"
      [] OTHER -> s

\* str.strip() on the strings in use.
Strip(s) ==
    CASE s = " IN2" -> "IN2"
      [] s = " d7" -> "d7"
      [] OTHER -> s

\* f"dev:{device_id}:{field}".strip().lower()
LockKey(device_id, field) == <<"dev", Lower(device_id), Lower(field)>>

\* The rows a write request finds: its binding, then its device's claim.
FindBinding(user_id, widget_id) ==
    { b \in ControlBindingRows : b.user_id = user_id /\ b.widget_id = widget_id }

DeviceClaimedBy(device_id, user_id) ==
    /\ device_id \in DOMAIN DeviceClaims
    /\ DeviceClaims[device_id] = user_id

NoReq == [user_id |-> 0, widget_id |-> "", device_id |-> "", field |-> "",
          lk |-> <<>>, expires_at |-> 0]

\* What the handler returns or raises before it has a lock.
NoData == [raw |-> FALSE, value |-> NoneStr]
NoResult == [kind |-> "none", status |-> 0, ok |-> FALSE, nodeRedOk |-> FALSE,
             pending |-> FALSE, data |-> NoData, error |-> NoneStr,
             warning |-> NoneStr, released |-> FALSE]

HttpError(status) == [NoResult EXCEPT !.kind = "error", !.status = status]

\* {"ok": True, "device_id": ..., "claimed": True / False}
ClaimResult(claimed) ==
    [NoResult EXCEPT !.kind = IF claimed THEN "claimed" ELSE "unclaimed",
                     !.status = 200, !.ok = TRUE]

\* The unique constraint of control_action_locks on lock_key: an insert
\* raises IntegrityError when a row with the key is in the table, expired
\* or not.
LockKeyTaken(table, lk) == \E row \in table : row.lock_key = lk

\* The table after the rows with lock_key == lk are deleted.
LockReleased(table, lk) == { row \in table : row.lock_key # lk }

\* ControlActionLock(lock_key, device_id, field, user_id, expires_at)
LockRow(r) ==
    [lock_key |-> req[r].lk, device_id |-> req[r].device_id, field |-> req[r].field,
     user_id |-> req[r].user_id, expires_at |-> req[r].expires_at]

\* StartWrite without the check that the device is claimed by the caller.
StartWriteSkipsClaimCheck(r, user_id, widget_id) ==
    /\ pc[r] \in {"idle", "done"}
    /\ db2' = [db2 EXCEPT ![r] = "none"]
    /\ posted' = [posted EXCEPT ![r] = FALSE]
    /\ LET found == FindBinding(user_id, widget_id) IN
       IF found = {}
       THEN /\ pc' = [pc EXCEPT ![r] = "done"]
            /\ result' = [result EXCEPT ![r] = HttpError(404)]
            /\ req' = [req EXCEPT ![r] = NoReq]
            /\ db' = [db EXCEPT ![r] = "closed"]
       ELSE LET row == CHOOSE b \in found : TRUE
                device_id == row.bind_device_id
                field == Lower(row.bind_field)
            IN
            IF device_id = "" \/ field \notin ALLOWED_FIELDS
            THEN /\ pc' = [pc EXCEPT ![r] = "done"]
                 /\ result' = [result EXCEPT ![r] = HttpError(400)]
                 /\ req' = [req EXCEPT ![r] = NoReq]
                 /\ db' = [db EXCEPT ![r] = "closed"]
            ELSE /\ pc' = [pc EXCEPT ![r] = "cleanup"]
                 /\ result' = [result EXCEPT ![r] = NoResult]
                 /\ req' = [req EXCEPT ![r] =
                        [user_id |-> user_id, widget_id |-> widget_id,
                         device_id |-> device_id, field |-> field,
                         lk |-> LockKey(device_id, field),
                         expires_at |-> now + HoldTicks]]
                 /\ db' = [db EXCEPT ![r] = "open"]
    /\ UNCHANGED <<now, locks, tickVars, otherVars>>

\* write_control_do up to the lock's acquisition: resolve the binding, check
\* the claim, compute the lock key and the expiry.
StartWrite(r, user_id, widget_id) ==
    /\ pc[r] \in {"idle", "done"}
    /\ db2' = [db2 EXCEPT ![r] = "none"]
    /\ posted' = [posted EXCEPT ![r] = FALSE]
    /\ LET found == FindBinding(user_id, widget_id) IN
       IF found = {}
       THEN /\ pc' = [pc EXCEPT ![r] = "done"]
            /\ result' = [result EXCEPT ![r] = HttpError(404)]
            /\ req' = [req EXCEPT ![r] = NoReq]
            /\ db' = [db EXCEPT ![r] = "closed"]
       ELSE LET row == CHOOSE b \in found : TRUE
                device_id == row.bind_device_id
                field == Lower(row.bind_field)
            IN
            IF device_id = "" \/ field \notin ALLOWED_FIELDS
            THEN /\ pc' = [pc EXCEPT ![r] = "done"]
                 /\ result' = [result EXCEPT ![r] = HttpError(400)]
                 /\ req' = [req EXCEPT ![r] = NoReq]
                 /\ db' = [db EXCEPT ![r] = "closed"]
            ELSE IF ~DeviceClaimedBy(device_id, user_id)
            THEN /\ pc' = [pc EXCEPT ![r] = "done"]
                 /\ result' = [result EXCEPT ![r] = HttpError(403)]
                 /\ req' = [req EXCEPT ![r] = NoReq]
                 /\ db' = [db EXCEPT ![r] = "closed"]
            ELSE /\ pc' = [pc EXCEPT ![r] = "cleanup"]
                 /\ result' = [result EXCEPT ![r] = NoResult]
                 /\ req' = [req EXCEPT ![r] =
                        [user_id |-> user_id, widget_id |-> widget_id,
                         device_id |-> device_id, field |-> field,
                         lk |-> LockKey(device_id, field),
                         expires_at |-> now + HoldTicks]]
                 /\ db' = [db EXCEPT ![r] = "open"]
    /\ UNCHANGED <<now, locks, tickVars, otherVars>>

\* _cleanup_expired_locks: delete the rows with expires_at <= now and commit;
\* on an exception roll back.
ExpiredSwept(table, t) == { row \in table : row.expires_at > t }

\* CleanupExpiredLocks with a DELETE that has lost its filter on expires_at:
\* every row goes.
CleanupExpiredLocksDeletesAll(r, fails) ==
    /\ pc[r] = "cleanup"
    /\ locks' = IF fails THEN locks ELSE {}
    /\ pc' = [pc EXCEPT ![r] = "insert"]
    /\ UNCHANGED <<now, req, db, db2, result, posted, tickVars, otherVars>>

\* CleanupExpiredLocks with the DELETE restricted to the lock key of the
\* request: the expired rows of the other keys stay.
CleanupExpiredLocksOwnKeyOnly(r, fails) ==
    /\ pc[r] = "cleanup"
    /\ locks' = IF fails THEN locks
                ELSE { row \in locks : row.lock_key # req[r].lk \/ row.expires_at > now }
    /\ pc' = [pc EXCEPT ![r] = "insert"]
    /\ UNCHANGED <<now, req, db, db2, result, posted, tickVars, otherVars>>

CleanupExpiredLocks(r, fails) ==
    /\ pc[r] = "cleanup"
    /\ locks' = IF fails THEN locks ELSE ExpiredSwept(locks, now)
    /\ pc' = [pc EXCEPT ![r] = "insert"]
    /\ UNCHANGED <<now, req, db, db2, result, posted, tickVars, otherVars>>

\* InsertLock with the IntegrityError swallowed: the handler goes on to the
\* gateway without a row of its own.
InsertLockSwallowsConflict(r) ==
    /\ pc[r] = "insert"
    /\ locks' = locks \cup {LockRow(r)}
    /\ pc' = [pc EXCEPT ![r] = "close"]
    /\ req' = [req EXCEPT ![r].expires_at = 0]
    /\ UNCHANGED <<now, result, db, db2, posted, tickVars, otherVars>>

\* InsertLock with the conflict raised inside the try/finally of the gateway
\* call: the release step runs and deletes the holder's row.
InsertLockReleasesOnConflict(r) ==
    /\ pc[r] = "insert"
    /\ IF LockKeyTaken(locks, req[r].lk)
       THEN /\ locks' = LockReleased(locks, req[r].lk)
            /\ pc' = [pc EXCEPT ![r] = "done"]
            /\ result' = [result EXCEPT ![r] = HttpError(409)]
            /\ db' = [db EXCEPT ![r] = "closed"]
            /\ req' = [req EXCEPT ![r] = NoReq]
       ELSE /\ locks' = locks \cup {LockRow(r)}
            /\ pc' = [pc EXCEPT ![r] = "close"]
            /\ req' = [req EXCEPT ![r].expires_at = 0]
            /\ UNCHANGED <<result, db>>
    /\ UNCHANGED <<now, db2, posted, tickVars, otherVars>>

\* InsertLock with the handler's local expires_at (line 378) kept to the end
\* of the handler, as it is in the code's frame: LockRow(r) then names, in
\* every later step of the request, the row the request inserted.
InsertLockKeepsExpiry(r) ==
    /\ pc[r] = "insert"
    /\ IF LockKeyTaken(locks, req[r].lk)
       THEN /\ locks' = locks
            /\ pc' = [pc EXCEPT ![r] = "done"]
            /\ result' = [result EXCEPT ![r] = HttpError(409)]
            /\ db' = [db EXCEPT ![r] = "closed"]
            /\ req' = [req EXCEPT ![r] = NoReq]
       ELSE /\ locks' = locks \cup {LockRow(r)}
            /\ pc' = [pc EXCEPT ![r] = "close"]
            /\ req' = req
            /\ UNCHANGED <<result, db>>
    /\ UNCHANGED <<now, db2, posted, tickVars, otherVars>>

\* db.add(lock_row); db.commit(): the row is in, or IntegrityError becomes the
\* 409 "Control Action in Progress" and the request ends. The handler does
\* not read expires_at again, and the request forgets it.
InsertLock(r) ==
    /\ pc[r] = "insert"
    /\ IF LockKeyTaken(locks, req[r].lk)
       THEN /\ locks' = locks
            /\ pc' = [pc EXCEPT ![r] = "done"]
            /\ result' = [result EXCEPT ![r] = HttpError(409)]
            /\ db' = [db EXCEPT ![r] = "closed"]
            /\ req' = [req EXCEPT ![r] = NoReq]
       ELSE /\ locks' = locks \cup {LockRow(r)}
            /\ pc' = [pc EXCEPT ![r] = "close"]
            /\ req' = [req EXCEPT ![r].expires_at = 0]
            /\ UNCHANGED <<result, db>>
    /\ UNCHANGED <<now, db2, posted, tickVars, otherVars>>

\* CloseSession without the db.close(): the POST starts with the session open.
CloseSessionKeepsOpen(r) ==
    /\ pc[r] = "close"
    /\ pc' = [pc EXCEPT ![r] = "inflight"]
    /\ posted' = [posted EXCEPT ![r] = TRUE]
    /\ UNCHANGED <<now, locks, req, db, db2, result, tickVars, otherVars>>

\* db.close() before the gateway is called; the POST starts.
CloseSession(r) ==
    /\ pc[r] = "close"
    /\ db' = [db EXCEPT ![r] = "closed"]
    /\ pc' = [pc EXCEPT ![r] = "inflight"]
    /\ posted' = [posted EXCEPT ![r] = TRUE]
    /\ UNCHANGED <<now, locks, req, db2, result, tickVars, otherVars>>

\* A response body: its text (r.text) and what r.json() parses it to
\* (_safe_json: None when the body is not JSON, and for the JSON null).
JsonBody == [text |-> "{ack}", parsed |-> "{ack}"]
NullBody == [text |-> "null", parsed |-> NoneStr]
TextBody == [text |-> "busy", parsed |-> NoneStr]
EmptyBody == [text |-> "", parsed |-> NoneStr]
Bodies == {JsonBody, NullBody, TextBody, EmptyBody}

\* How the POST can end: an HTTP response, requests.Timeout (connect or read
\* timeout), or any other exception (connection refused, reset, DNS, ...).
Response(status, body) == [kind |-> "response", status |-> status, body |-> body]
TimeoutEvent == [kind |-> "timeout", status |-> 0, body |-> EmptyBody]
ErrorEvent == [kind |-> "error", status |-> 0, body |-> EmptyBody]

GatewayEvents ==
    {Response(200, JsonBody), Response(500, TextBody), TimeoutEvent, ErrorEvent}

\* _post_to_node_red_wait treating every status below 400 as success.
PostToNodeRedWaitBelow400(ev) ==
    IF ev.kind = "timeout"
    THEN [NoResult EXCEPT !.kind = "gateway", !.status = 504, !.ok = TRUE,
                          !.pending = TRUE, !.warning = "Node-RED timeout (pending)"]
    ELSE IF ev.kind = "error"
    THEN [NoResult EXCEPT !.kind = "gateway", !.status = 502,
                          !.error = "Node-RED unreachable"]
    ELSE LET data == ev.body.parsed
             text_body == Strip(ev.body.text)
         IN IF 200 <= ev.status /\ ev.status < 400
            THEN [NoResult EXCEPT !.kind = "gateway", !.status = ev.status,
                                  !.ok = TRUE, !.nodeRedOk = TRUE,
                                  !.data = IF data # NoneStr
                                           THEN [raw |-> FALSE, value |-> data]
                                           ELSE [raw |-> TRUE, value |-> text_body]]
            ELSE [NoResult EXCEPT !.kind = "gateway", !.status = ev.status,
                                  !.error = IF data # NoneStr THEN data
                                            ELSE IF text_body # "" THEN text_body
                                            ELSE "Node-RED write failed"]

\* _post_to_node_red_wait: what it returns for each way the POST can end.
PostToNodeRedWait(ev) ==
    IF ev.kind = "timeout"
    THEN [NoResult EXCEPT !.kind = "gateway", !.status = 504, !.ok = TRUE,
                          !.pending = TRUE, !.warning = "Node-RED timeout (pending)"]
    ELSE IF ev.kind = "error"
    THEN [NoResult EXCEPT !.kind = "gateway", !.status = 502,
                          !.error = "Node-RED unreachable"]
    ELSE LET data == ev.body.parsed
             text_body == Strip(ev.body.text)
         IN IF 200 <= ev.status /\ ev.status < 300
            THEN [NoResult EXCEPT !.kind = "gateway", !.status = ev.status,
                                  !.ok = TRUE, !.nodeRedOk = TRUE,
                                  !.data = IF data # NoneStr
                                           THEN [raw |-> FALSE, value |-> data]
                                           ELSE [raw |-> TRUE, value |-> text_body]]
            ELSE [NoResult EXCEPT !.kind = "gateway", !.status = ev.status,
                                  !.error = IF data # NoneStr THEN data
                                            ELSE IF text_body # "" THEN text_body
                                            ELSE "Node-RED write failed"]

\* The function applied on its own to every way the POST can end.
HttpStatuses == 100..599

GatewayInputs ==
    { Response(st, b) : st \in HttpStatuses, b \in Bodies } \cup {TimeoutEvent, ErrorEvent}

ApplyPostToNodeRedWait ==
    /\ arg.kind \in {"response", "timeout", "error"}
    /\ ret.kind = "none"
    /\ ret' = PostToNodeRedWait(arg)
    /\ UNCHANGED <<now, arg, made, txn, runner, lockVars, tickVars>>

\* The POST ends; the finally block is entered whatever the outcome.
GatewayReturn(r, ev) ==
    /\ pc[r] = "inflight"
    /\ result' = [result EXCEPT ![r] = PostToNodeRedWait(ev)]
    /\ pc' = [pc EXCEPT ![r] = "release"]
    /\ UNCHANGED <<now, locks, req, db, db2, posted, tickVars, otherVars>>

\* finally: db2 = SessionLocal().
OpenReleaseSession(r) ==
    /\ pc[r] = "release"
    /\ pc' = [pc EXCEPT ![r] = "releasing"]
    /\ db2' = [db2 EXCEPT ![r] = "open"]
    /\ UNCHANGED <<now, locks, req, db, result, posted, tickVars, otherVars>>

\* delete the rows with lock_key == lk, commit, db2.close(); an exception is
\* swallowed (the delete is not committed) and the handler returns.

\* ReleaseLock outside a finally block: the row is deleted only when the
\* gateway acknowledged.
ReleaseLockOnAckOnly(r, fails) ==
    /\ pc[r] = "releasing"
    /\ locks' = IF fails \/ ~result[r].nodeRedOk
                THEN locks ELSE LockReleased(locks, req[r].lk)
    /\ result' = [result EXCEPT ![r].released = ~fails]
    /\ db2' = [db2 EXCEPT ![r] = "closed"]
    /\ pc' = [pc EXCEPT ![r] = "done"]
    /\ req' = [req EXCEPT ![r] = NoReq]
    /\ UNCHANGED <<now, db, posted, tickVars, otherVars>>

ReleaseLock(r, fails) ==
    /\ pc[r] = "releasing"
    /\ locks' = IF fails THEN locks ELSE LockReleased(locks, req[r].lk)
    /\ result' = [result EXCEPT ![r].released = ~fails]
    /\ db2' = [db2 EXCEPT ![r] = "closed"]
    /\ pc' = [pc EXCEPT ![r] = "done"]
    /\ req' = [req EXCEPT ![r] = NoReq]
    /\ UNCHANGED <<now, db, posted, tickVars, otherVars>>

\* The clock moves while requests run, by the lock's time to live.
LockClockSteps == {HoldTicks}

LockNext ==
    \/ \E r \in Requests, u \in Users, w \in WidgetIds : StartWrite(r, u, w)
    \/ \E r \in Requests, f \in BOOLEAN : CleanupExpiredLocks(r, f)
    \/ \E r \in Requests : InsertLock(r)
    \/ \E r \in Requests : CloseSession(r)
    \/ \E r \in Requests, ev \in GatewayEvents : GatewayReturn(r, ev)
    \/ \E r \in Requests : OpenReleaseSession(r)
    \/ \E r \in Requests, f \in BOOLEAN : ReleaseLock(r, f)
    \/ \E d \in LockClockSteps :
          AdvanceClock(d, LockMaxSec * TicksPerSec) /\ UNCHANGED <<lockVars, tickVars, otherVars>>

\* The same requests, each keeping the expiry of the row it inserted.
OwnRowNext ==
    \/ \E r \in Requests, u \in Users, w \in WidgetIds : StartWrite(r, u, w)
    \/ \E r \in Requests, f \in BOOLEAN : CleanupExpiredLocks(r, f)
    \/ \E r \in Requests : InsertLockKeepsExpiry(r)
    \/ \E r \in Requests : CloseSession(r)
    \/ \E r \in Requests, ev \in GatewayEvents : GatewayReturn(r, ev)
    \/ \E r \in Requests : OpenReleaseSession(r)
    \/ \E r \in Requests, f \in BOOLEAN : ReleaseLock(r, f)
    \/ \E d \in LockClockSteps :
          AdvanceClock(d, LockMaxSec * TicksPerSec) /\ UNCHANGED <<lockVars, tickVars, otherVars>>

\* ====================================================================
\* routers/device_counters_tick.py
\* ====================================================================

\* DEFAULT_INTERVAL_SEC, the runner's interval, in seconds.
DEFAULT_INTERVAL_SEC == 2

DiFields == {"di1", "di2", "di3", "di4", "di5", "di6"}

\* _normalize_di_field: di1..di6, or the legacy in1..in6, else None.
NormalizeDiField(field) ==
    IF field = "" THEN NoneStr
    ELSE LET f == Lower(Strip(field))
             g == CASE f = "in1" -> "di1" [] f = "in2" -> "di2" [] f = "in3" -> "di3"
                    [] f = "in4" -> "di4" [] f = "in5" -> "di5" [] f = "in6" -> "di6"
                    [] OTHER -> f
         IN IF g \in DiFields THEN g ELSE NoneStr

\* --------------------------------------------------------------------
\* Strings character by character (a string is the sequence of its
\* characters), for the functions that are applied on their own.
\* --------------------------------------------------------------------
Digits == {"0", "1", "2", "3", "4", "5", "6", "7", "8", "9"}

\* str.lower() on the letters in use.
LowerChar(c) ==
    CASE c = "D" -> "d"
      [] c = "I" -> "i"
      [] c = "N" -> "n"
      [] c = "O" -> "o"
      [] c = "T" -> "t"
      [] OTHER -> c

LowerChars(s) == [i \in DOMAIN s |-> LowerChar(s[i])]

\* str.strip(): the blanks before the first and after the last other
\* character are dropped.
RECURSIVE StripLeft(_)
StripLeft(s) == IF s # << >> /\ Head(s) = " " THEN StripLeft(Tail(s)) ELSE s

RECURSIVE StripRight(_)
StripRight(s) ==
    IF s # << >> /\ s[Len(s)] = " " THEN StripRight(SubSeq(s, 1, Len(s) - 1)) ELSE s

StripChars(s) == StripRight(StripLeft(s))

\* None where a function returns a string or None.
NoneChars == <<NoneStr>>

DiFieldChars == { <<"d", "i", k>> : k \in {"1", "2", "3", "4", "5", "6"} }

\* NormalizeDiField with a legacy mapping that keeps the name for in1..in6
\* only when it is written in lower case.
NormalizeDiFieldCharsLowerOnly(field) ==
    IF field = << >> THEN NoneChars
    ELSE LET f == StripChars(field)
             g == IF Len(f) = 3 /\ SubSeq(f, 1, 2) = <<"i", "n">> /\ f[3] \in Digits
                  THEN <<"d", "i", f[3]>>
                  ELSE LowerChars(f)
         IN IF g \in DiFieldChars THEN g ELSE NoneChars

\* _normalize_di_field of the tick engine, character by character: None for
\* an empty string; strip, lower; "in" and a digit becomes "di" and the digit;
\* the name when it is one of di1..di6, else None.
NormalizeDiFieldChars(field) ==
    IF field = << >> THEN NoneChars
    ELSE LET f == LowerChars(StripChars(field))
             g == IF Len(f) = 3 /\ SubSeq(f, 1, 2) = <<"i", "n">> /\ f[3] \in Digits
                  THEN <<"d", "i", f[3]>>
                  ELSE f
         IN IF g \in DiFieldChars THEN g ELSE NoneChars

\* _normalize_field of the counter endpoints, character by character: strip,
\* lower; "" for an empty result; the legacy mapping; the name when it is one
\* of di1..di6, else "".
NormalizeFieldChars(field) ==
    LET f == LowerChars(StripChars(field))
        g == IF Len(f) = 3 /\ SubSeq(f, 1, 2) = <<"i", "n">> /\ f[3] \in Digits
             THEN <<"d", "i", f[3]>>
             ELSE f
    IN IF f = << >> THEN << >>
       ELSE IF g \in DiFieldChars THEN g ELSE << >>

\* A column value of zhc1921_devices, or another value _to01 may be given:
\* SQL NULL, an integer, a boolean, a string.
RawNull == [t |-> "null", n |-> 0]
RawInt(n) == [t |-> "int", n |-> n]
RawBool(b) == [t |-> "bool", b |-> b]
RawStr(s) == [t |-> "str", s |-> s]

OnWords == { <<"1">>, <<"t", "r", "u", "e">>, <<"o", "n">>, <<"y", "e", "s">> }

OffWords == { <<"0">>, <<"f", "a", "l", "s", "e">>, <<"o", "f", "f">>, <<"n", "o">> }

\* float(s) returns for s: an optional minus sign, then digits with at most
\* one point among them (the strings in use hold no exponent, "inf" or "nan").
UnsignedPart(s) == IF s # << >> /\ Head(s) = "-" THEN Tail(s) ELSE s

ParsesAsFloat(s) ==
    LET u == UnsignedPart(s)
    IN /\ \A i \in DOMAIN u : u[i] \in Digits \cup {"."}
       /\ \E i \in DOMAIN u : u[i] \in Digits
       /\ Cardinality({ i \in DOMAIN u : u[i] = "." }) <= 1

\* float(s) > 0
FloatPositive(s) ==
    /\ ParsesAsFloat(s)
    /\ Head(s) # "-"
    /\ \E i \in DOMAIN s : s[i] \in Digits \ {"0"}

\* _to01 of the tick engine: None for None; a boolean as it is; 1 for a
\* positive number, else 0; a string is stripped and lowered, 1 for "1",
\* "true", "on", "yes", 0 for "0", "false", "off", "no", else as the number
\* it parses to, else 1 unless the value itself is the empty string.
To01(v) ==
    IF v.t = "null" THEN NULL
    ELSE IF v.t = "bool" THEN (IF v.b THEN 1 ELSE 0)
    ELSE IF v.t = "int" THEN (IF v.n > 0 THEN 1 ELSE 0)
    ELSE LET s == LowerChars(StripChars(v.s))
         IN IF s \in OnWords THEN 1
            ELSE IF s \in OffWords THEN 0
            ELSE IF ParsesAsFloat(s) THEN (IF FloatPositive(s) THEN 1 ELSE 0)
            ELSE IF v.s # << >> THEN 1 ELSE 0

\* _to01 of the counter endpoints: the same, but a string that is no word
\* and no number gives 1 unless the stripped string is empty.
To01Crud(v) ==
    IF v.t = "null" THEN NULL
    ELSE IF v.t = "bool" THEN (IF v.b THEN 1 ELSE 0)
    ELSE IF v.t = "int" THEN (IF v.n > 0 THEN 1 ELSE 0)
    ELSE LET s == LowerChars(StripChars(v.s))
         IN IF s \in OnWords THEN 1
            ELSE IF s \in OffWords THEN 0
            ELSE IF ParsesAsFloat(s) THEN (IF FloatPositive(s) THEN 1 ELSE 0)
            ELSE IF s # << >> THEN 1 ELSE 0

\* The two normalizers and the two coercions applied on their own, each pair
\* to one input: the strings up to a length over a few characters, the
\* integers around zero, the booleans, None, and the words.
FieldAlphabet == {" ", "d", "D", "i", "I", "n", "N", "1", "7"}

FieldMaxLen == 4

LevelAlphabet == {" ", "-", "0", "1", ".", "o", "n", "N"}

LevelMaxLen == 3

LevelMaxInt == 2

CharStrings(alphabet, n) == UNION { [1..k -> alphabet] : k \in 0..n }

LevelWords ==
    { <<"t", "r", "u", "e">>, <<"T", "r", "u", "e">>, <<"f", "a", "l", "s", "e">>,
      <<"o", "f", "f">>, <<" ", "y", "e", "s">>, <<"a", "b", "c">> }

LevelInputs ==
    {RawNull} \cup { RawBool(b) : b \in BOOLEAN }
      \cup { RawInt(n) : n \in (0 - LevelMaxInt)..LevelMaxInt }
      \cup { RawStr(x) : x \in CharStrings(LevelAlphabet, LevelMaxLen) \cup LevelWords }

PureInputs ==
    { [kind |-> "field", s |-> x] : x \in CharStrings(FieldAlphabet, FieldMaxLen) }
      \cup { [kind |-> "level", v |-> v] : v \in LevelInputs }

ApplyNormalizeField ==
    /\ arg.kind = "field"
    /\ ret.kind = "none"
    /\ ret' = [kind |-> "fields", tick |-> NormalizeDiFieldChars(arg.s),
               crud |-> NormalizeFieldChars(arg.s)]
    /\ UNCHANGED <<now, arg, made, txn, runner, lockVars, tickVars>>

ApplyTo01 ==
    /\ arg.kind = "level"
    /\ ret.kind = "none"
    /\ ret' = [kind |-> "levels", tick |-> To01(arg.v), crud |-> To01Crud(arg.v)]
    /\ UNCHANGED <<now, arg, made, txn, runner, lockVars, tickVars>>

PureNext == ApplyNormalizeField \/ ApplyTo01

\* _clamp_int
ClampInt(v, lo, hi) ==
    IF v < lo THEN lo
    ELSE IF v > hi THEN hi
    ELSE v

\* int(x / y) of Python: the quotient truncated towards zero.
TruncDiv(x, y) == IF x >= 0 THEN x \div y ELSE -((-x) \div y)

\* max_delta = max(5, int(float(interval_sec) * 3))
MaxDelta(interval_sec) == Max(5, interval_sec * 3)

\* InLive for a bulk read whose JOIN does not look at the claim.
InLiveAnyClaim(devs, user_id, device_id) ==
    device_id \in DOMAIN devs

\* InLive for a bulk read whose JOIN matches the user but not the device.
InLiveByUserOnly(devs, user_id, device_id) ==
    /\ device_id \in DOMAIN devs
    /\ \E d \in DOMAIN devs : devs[d].claimed_by_user_id = user_id

\* Whether the bulk read returns a row of zhc1921_devices for
\* (user_id, device_id): the JOIN keeps a device only when that user has
\* claimed it.
InLive(devs, user_id, device_id) ==
    /\ device_id \in DOMAIN devs
    /\ devs[device_id].claimed_by_user_id = user_id

\* Cur01 for a pass that loads the disabled counters too.
Cur01IgnoresEnabled(c, devs) ==
    LET device_id == Strip(c.device_id)
        di_field == NormalizeDiField(Strip(c.field))
    IN IF device_id = "" \/ di_field = NoneStr THEN NULL
       ELSE IF ~InLive(devs, c.user_id, device_id) THEN NULL
       ELSE IF di_field \notin DOMAIN devs[device_id] THEN NULL
       ELSE To01(devs[device_id][di_field])

\* The level a pass resolves for a counter row, or NULL when the pass skips
\* the row: disabled, unbound, field not a digital input, device not in the
\* bulk read, input NULL.
Cur01(c, devs) ==
    IF ~c.enabled THEN NULL
    ELSE LET device_id == Strip(c.device_id)
             di_field == NormalizeDiField(Strip(c.field))
         IN IF device_id = "" \/ di_field = NoneStr THEN NULL
            ELSE IF ~InLive(devs, c.user_id, device_id) THEN NULL
            ELSE IF di_field \notin DOMAIN devs[device_id] THEN NULL
            ELSE To01(devs[device_id][di_field])

\* TickCounter adding no run time on the pass that sees the rising edge.
TickCounterSkipsRunOnEdge(c, cur01, t, interval_sec) ==
    IF c.last_tick_at = NULL
    THEN [c EXCEPT !.last_tick_at = t, !.prev01 = cur01, !.updated_at = t]
    ELSE LET prev01 == c.prev01
             old_count == c.count
             delta == ClampInt(TruncDiv(t - c.last_tick_at, TicksPerSec), 0,
                               MaxDelta(interval_sec))
             new_count == IF prev01 = 0 /\ cur01 = 1 THEN old_count + 1 ELSE old_count
             run_seconds == IF cur01 = 1 /\ prev01 = 1 /\ delta > 0
                            THEN c.run_seconds + delta ELSE c.run_seconds
             need_update == \/ new_count # old_count
                            \/ prev01 # cur01
                            \/ (cur01 = 1 /\ delta > 0)
         IN IF need_update
            THEN [c EXCEPT !.count = new_count, !.prev01 = cur01,
                           !.run_seconds = run_seconds,
                           !.last_tick_at = t, !.updated_at = t]
            ELSE c

\* TickCounter counting falling edges too.
TickCounterCountsAnyEdge(c, cur01, t, interval_sec) ==
    IF c.last_tick_at = NULL
    THEN [c EXCEPT !.last_tick_at = t, !.prev01 = cur01, !.updated_at = t]
    ELSE LET prev01 == c.prev01
             old_count == c.count
             delta == ClampInt(TruncDiv(t - c.last_tick_at, TicksPerSec), 0,
                               MaxDelta(interval_sec))
             new_count == IF prev01 # cur01 THEN old_count + 1 ELSE old_count
             run_seconds == IF cur01 = 1 /\ delta > 0
                            THEN c.run_seconds + delta ELSE c.run_seconds
             need_update == \/ new_count # old_count
                            \/ prev01 # cur01
                            \/ (cur01 = 1 /\ delta > 0)
         IN IF need_update
            THEN [c EXCEPT !.count = new_count, !.prev01 = cur01,
                           !.run_seconds = run_seconds,
                           !.last_tick_at = t, !.updated_at = t]
            ELSE c

\* TickCounter adding the nominal interval instead of the measured delta.
TickCounterAddsInterval(c, cur01, t, interval_sec) ==
    IF c.last_tick_at = NULL
    THEN [c EXCEPT !.last_tick_at = t, !.prev01 = cur01, !.updated_at = t]
    ELSE LET prev01 == c.prev01
             old_count == c.count
             delta == ClampInt(TruncDiv(t - c.last_tick_at, TicksPerSec), 0,
                               MaxDelta(interval_sec))
             new_count == IF prev01 = 0 /\ cur01 = 1 THEN old_count + 1 ELSE old_count
             run_seconds == IF cur01 = 1 /\ delta > 0
                            THEN c.run_seconds + interval_sec ELSE c.run_seconds
             need_update == \/ new_count # old_count
                            \/ prev01 # cur01
                            \/ (cur01 = 1 /\ delta > 0)
         IN IF need_update
            THEN [c EXCEPT !.count = new_count, !.prev01 = cur01,
                           !.run_seconds = run_seconds,
                           !.last_tick_at = t, !.updated_at = t]
            ELSE c

\* TickCounter without the upper clamp of the delta.
TickCounterNoClamp(c, cur01, t, interval_sec) ==
    IF c.last_tick_at = NULL
    THEN [c EXCEPT !.last_tick_at = t, !.prev01 = cur01, !.updated_at = t]
    ELSE LET prev01 == c.prev01
             old_count == c.count
             delta == Max(TruncDiv(t - c.last_tick_at, TicksPerSec), 0)
             new_count == IF prev01 = 0 /\ cur01 = 1 THEN old_count + 1 ELSE old_count
             run_seconds == IF cur01 = 1 /\ delta > 0
                            THEN c.run_seconds + delta ELSE c.run_seconds
             need_update == \/ new_count # old_count
                            \/ prev01 # cur01
                            \/ (cur01 = 1 /\ delta > 0)
         IN IF need_update
            THEN [c EXCEPT !.count = new_count, !.prev01 = cur01,
                           !.run_seconds = run_seconds,
                           !.last_tick_at = t, !.updated_at = t]
            ELSE c

\* TickCounter counting the level, not the edge.
TickCounterCountsLevel(c, cur01, t, interval_sec) ==
    IF c.last_tick_at = NULL
    THEN [c EXCEPT !.last_tick_at = t, !.prev01 = cur01, !.updated_at = t]
    ELSE LET prev01 == c.prev01
             old_count == c.count
             delta == ClampInt(TruncDiv(t - c.last_tick_at, TicksPerSec), 0,
                               MaxDelta(interval_sec))
             new_count == IF cur01 = 1 THEN old_count + 1 ELSE old_count
             run_seconds == IF cur01 = 1 /\ delta > 0
                            THEN c.run_seconds + delta ELSE c.run_seconds
             need_update == \/ new_count # old_count
                            \/ prev01 # cur01
                            \/ (cur01 = 1 /\ delta > 0)
         IN IF need_update
            THEN [c EXCEPT !.count = new_count, !.prev01 = cur01,
                           !.run_seconds = run_seconds,
                           !.last_tick_at = t, !.updated_at = t]
            ELSE c

\* TickCounter evaluating the edge on the first tick.
TickCounterEdgeOnFirstTick(c, cur01, t, interval_sec) ==
    IF c.last_tick_at = NULL
    THEN [c EXCEPT !.last_tick_at = t, !.prev01 = cur01, !.updated_at = t,
                   !.count = IF c.prev01 = 0 /\ cur01 = 1 THEN c.count + 1 ELSE c.count]
    ELSE LET prev01 == c.prev01
             old_count == c.count
             delta == ClampInt(TruncDiv(t - c.last_tick_at, TicksPerSec), 0,
                               MaxDelta(interval_sec))
             new_count == IF prev01 = 0 /\ cur01 = 1 THEN old_count + 1 ELSE old_count
             run_seconds == IF cur01 = 1 /\ delta > 0
                            THEN c.run_seconds + delta ELSE c.run_seconds
             need_update == \/ new_count # old_count
                            \/ prev01 # cur01
                            \/ (cur01 = 1 /\ delta > 0)
         IN IF need_update
            THEN [c EXCEPT !.count = new_count, !.prev01 = cur01,
                           !.run_seconds = run_seconds,
                           !.last_tick_at = t, !.updated_at = t]
            ELSE c

\* TickCounter whose second UPDATE leaves last_tick_at out.
TickCounterKeepsTickTime(c, cur01, t, interval_sec) ==
    IF c.last_tick_at = NULL
    THEN [c EXCEPT !.last_tick_at = t, !.prev01 = cur01, !.updated_at = t]
    ELSE LET prev01 == c.prev01
             old_count == c.count
             delta == ClampInt(TruncDiv(t - c.last_tick_at, TicksPerSec), 0,
                               MaxDelta(interval_sec))
             new_count == IF prev01 = 0 /\ cur01 = 1 THEN old_count + 1 ELSE old_count
             run_seconds == IF cur01 = 1 /\ delta > 0
                            THEN c.run_seconds + delta ELSE c.run_seconds
             need_update == \/ new_count # old_count
                            \/ prev01 # cur01
                            \/ (cur01 = 1 /\ delta > 0)
         IN IF need_update
            THEN [c EXCEPT !.count = new_count, !.prev01 = cur01,
                           !.run_seconds = run_seconds, !.updated_at = t]
            ELSE c

\* TickCounter whose second UPDATE leaves prev01 out.
TickCounterKeepsPrev(c, cur01, t, interval_sec) ==
    IF c.last_tick_at = NULL
    THEN [c EXCEPT !.last_tick_at = t, !.prev01 = cur01, !.updated_at = t]
    ELSE LET prev01 == c.prev01
             old_count == c.count
             delta == ClampInt(TruncDiv(t - c.last_tick_at, TicksPerSec), 0,
                               MaxDelta(interval_sec))
             new_count == IF prev01 = 0 /\ cur01 = 1 THEN old_count + 1 ELSE old_count
             run_seconds == IF cur01 = 1 /\ delta > 0
                            THEN c.run_seconds + delta ELSE c.run_seconds
             need_update == \/ new_count # old_count
                            \/ prev01 # cur01
                            \/ (cur01 = 1 /\ delta > 0)
         IN IF need_update
            THEN [c EXCEPT !.count = new_count,
                           !.run_seconds = run_seconds,
                           !.last_tick_at = t, !.updated_at = t]
            ELSE c

\* TickCounter whose second UPDATE is issued whether or not anything changed.
TickCounterAlwaysWrites(c, cur01, t, interval_sec) ==
    IF c.last_tick_at = NULL
    THEN [c EXCEPT !.last_tick_at = t, !.prev01 = cur01, !.updated_at = t]
    ELSE LET prev01 == c.prev01
             old_count == c.count
             delta == ClampInt(TruncDiv(t - c.last_tick_at, TicksPerSec), 0,
                               MaxDelta(interval_sec))
             new_count == IF prev01 = 0 /\ cur01 = 1 THEN old_count + 1 ELSE old_count
             run_seconds == IF cur01 = 1 /\ delta > 0
                            THEN c.run_seconds + delta ELSE c.run_seconds
         IN [c EXCEPT !.count = new_count, !.prev01 = cur01,
                      !.run_seconds = run_seconds,
                      !.last_tick_at = t, !.updated_at = t]

\* The row a pass at time t writes for counter row c observed at level cur01;
\* the row itself when the pass writes nothing.
TickCounter(c, cur01, t, interval_sec) ==
    IF c.last_tick_at = NULL
    THEN [c EXCEPT !.last_tick_at = t, !.prev01 = cur01, !.updated_at = t]
    ELSE LET prev01 == c.prev01
             old_count == c.count
             delta == ClampInt(TruncDiv(t - c.last_tick_at, TicksPerSec), 0,
                               MaxDelta(interval_sec))
             new_count == IF prev01 = 0 /\ cur01 = 1 THEN old_count + 1 ELSE old_count
             run_seconds == IF cur01 = 1 /\ delta > 0
                            THEN c.run_seconds + delta ELSE c.run_seconds
             need_update == \/ new_count # old_count
                            \/ prev01 # cur01
                            \/ (cur01 = 1 /\ delta > 0)
         IN IF need_update
            THEN [c EXCEPT !.count = new_count, !.prev01 = cur01,
                           !.run_seconds = run_seconds,
                           !.last_tick_at = t, !.updated_at = t]
            ELSE c

\* What the passes record about a counter, for the claims that speak of
\* consecutive passes: obs, the level the last pass observed (NULL when it
\* skipped the counter); stalled, whether that pass measured a gap of at least
\* StallSec seconds; and the steady level-1 streak: n, its length (counted up
\* to MaxStreak), run0 and count0, the totals when it began, sumSec and
\* sumTicks, the sum of its clamped deltas, each truncated to whole seconds
\* and each in ticks.
NoHist == [obs |-> NULL, was |-> NULL, stalled |-> FALSE, n |-> 0, run0 |-> 0, count0 |-> 0,
           sumSec |-> 0, sumTicks |-> 0]

\* A stall of ten minutes.
StallSec == 600

ClampSec(dticks, interval_sec) ==
    Min(Max(TruncDiv(dticks, TicksPerSec), 0), MaxDelta(interval_sec))

ClampTicks(dticks, interval_sec) ==
    Min(Max(dticks, 0), MaxDelta(interval_sec) * TicksPerSec)

Observe(h, c, cur01, t, interval_sec) ==
    IF cur01 = NULL \/ c.last_tick_at = NULL
    THEN [NoHist EXCEPT !.obs = cur01, !.was = h.obs]
    ELSE LET d == t - c.last_tick_at
             steady == cur01 = 1 /\ c.prev01 = 1
             first == h.n = 0
         IN [obs |-> cur01,
             was |-> h.obs,
             stalled |-> d >= StallSec * TicksPerSec,
             n |-> IF steady THEN Min(h.n + 1, MaxStreak) ELSE 0,
             run0 |-> IF ~steady THEN 0 ELSE IF first THEN c.run_seconds ELSE h.run0,
             count0 |-> IF ~steady THEN 0 ELSE IF first THEN c.count ELSE h.count0,
             sumSec |-> IF ~steady THEN 0 ELSE h.sumSec + ClampSec(d, interval_sec),
             sumTicks |-> IF ~steady THEN 0 ELSE h.sumTicks + ClampTicks(d, interval_sec)]

\* _tick_once: one pass over the enabled counters, committed at its end.
TickOnce(interval_sec) ==
    /\ passes < MaxPasses
    /\ passes' = passes + 1
    /\ counters' = [id \in DOMAIN counters |->
                      LET cur01 == Cur01(counters[id], devices)
                      IN IF cur01 = NULL THEN counters[id]
                         ELSE TickCounter(counters[id], cur01, now, interval_sec)]
    /\ hist' = [id \in DOMAIN counters |->
                  Observe(hist[id], counters[id], Cur01(counters[id], devices),
                          now, interval_sec)]
    /\ UNCHANGED <<now, devices, lockVars, otherVars>>

\* A digital input column: NULL until the device's first telemetry, then the
\* bit the telemetry handler stores.
RawValues == {RawNull, RawInt(0), RawInt(1)}

\* Telemetry: a digital input of a device takes a new value.

SetInput(device_id, di_field, v) ==
    /\ device_id \in DOMAIN devices
    /\ di_field \in DOMAIN devices[device_id]
    /\ v \in RawValues \ {RawNull}
    /\ devices[device_id][di_field] # v
    /\ devices' = [devices EXCEPT ![device_id][di_field] = v]
    /\ UNCHANGED <<now, counters, hist, passes, lockVars, otherVars>>

\* The wall clock is set back (a clock correction): a stored last_tick_at may
\* then lie in the future.
ClockSetBack(d, floor) ==
    /\ d > 0
    /\ now - d >= floor
    /\ now' = now - d
    /\ UNCHANGED <<counters, devices, hist, passes, lockVars, otherVars>>

\* The clock of the tick engine's runs moves by half a second or by the
\* runner's interval, within TickMaxSec seconds of the start or of the end of
\* the one stall of StallSec seconds.
TickClockSteps == {1, DEFAULT_INTERVAL_SEC * TicksPerSec}

TickClockFloor == IF now < StallSec * TicksPerSec THEN 0 ELSE StallSec * TicksPerSec

TickClockLimit == TickClockFloor + TickMaxSec * TicksPerSec

TickNext ==
    \/ TickOnce(DEFAULT_INTERVAL_SEC)
    \/ SetInput("D1", "di2", RawInt(0))
    \/ SetInput("D1", "di2", RawInt(1))
    \/ \E d \in TickClockSteps :
          AdvanceClock(d, TickClockLimit) /\ UNCHANGED <<lockVars, tickVars, otherVars>>
    \/ /\ now < StallSec * TicksPerSec
       /\ AdvanceClock(StallSec * TicksPerSec, (StallSec + TickMaxSec) * TicksPerSec)
       /\ UNCHANGED <<lockVars, tickVars, otherVars>>
    \/ ClockSetBack(TicksPerSec, TickClockFloor)

\* ====================================================================
\* The pass as the database sees it: the session's UPDATEs, then one commit
\* ====================================================================

\* No pass is open, no row was inserted through the endpoints, the runner is
\* not started, no function is being applied.
NoTxn == [pc |-> "idle", writes |-> [id \in {} |-> 0], at |-> 0, last |-> "none", n |-> 0]

NoRunner == [pc |-> "none", failed |-> FALSE]

NoArg == [kind |-> "none"]

\* The most passes in one behaviour when the passes are interleaved with the
\* endpoints.
CounterMaxPasses == 1

\* The UPDATE a pass issues for a row it observed, or none: the first-tick
\* UPDATE sets prev01 and the two timestamps, the other one also count and
\* run_seconds. Both set the timestamps to NOW(), the start of the pass's
\* transaction.
PassWrites(interval_sec) ==
    LET new(id) == TickCounter(counters[id], Cur01(counters[id], devices), now,
                               interval_sec)
        written == { id \in DOMAIN counters :
                       /\ Cur01(counters[id], devices) # NULL
                       /\ new(id) # counters[id] }
    IN [id \in written |->
          [first |-> counters[id].last_tick_at = NULL,
           count |-> new(id).count,
           prev01 |-> new(id).prev01,
           run_seconds |-> new(id).run_seconds]]

\* UPDATE public.device_counters SET ... WHERE id = :id, on the row as it is
\* when the statement runs.
ApplyWrite(row, w, t) ==
    IF w.first
    THEN [row EXCEPT !.last_tick_at = t, !.prev01 = w.prev01, !.updated_at = t]
    ELSE [row EXCEPT !.count = w.count, !.prev01 = w.prev01,
                     !.run_seconds = w.run_seconds,
                     !.last_tick_at = t, !.updated_at = t]

\* _tick_once up to its commit: load the enabled counters, bulk-read the
\* devices, issue the UPDATEs in the session.
PassLoad(interval_sec) ==
    /\ txn.pc = "idle"
    /\ passes < CounterMaxPasses
    /\ passes' = passes + 1
    /\ txn' = [pc |-> "loaded", writes |-> PassWrites(interval_sec), at |-> now,
               last |-> "none", n |-> 0]
    /\ UNCHANGED <<now, counters, devices, hist, made, runner, arg, ret, lockVars>>

\* PassCommit with the session in autocommit: a pass that fails has already
\* made its first UPDATE visible.
PassFailHalfCommitted ==
    /\ txn.pc = "loaded"
    /\ counters' = [id \in DOMAIN counters |->
                      IF /\ id \in DOMAIN txn.writes
                         /\ id = CHOOSE first \in DOMAIN txn.writes : TRUE
                      THEN ApplyWrite(counters[id], txn.writes[id], txn.at)
                      ELSE counters[id]]
    /\ txn' = [NoTxn EXCEPT !.last = "aborted", !.n = Cardinality(DOMAIN txn.writes)]
    /\ UNCHANGED <<now, devices, hist, passes, made, runner, arg, ret, lockVars>>

\* if updates: db.commit(): all the UPDATEs of the pass become visible; a pass
\* without an UPDATE returns without a commit.
PassCommit ==
    /\ txn.pc = "loaded"
    /\ counters' = [id \in DOMAIN counters |->
                      IF id \in DOMAIN txn.writes
                      THEN ApplyWrite(counters[id], txn.writes[id], txn.at)
                      ELSE counters[id]]
    /\ txn' = [NoTxn EXCEPT !.last = IF DOMAIN txn.writes = {} THEN "returned"
                                     ELSE "committed",
                             !.n = Cardinality(DOMAIN txn.writes)]
    /\ UNCHANGED <<now, devices, hist, passes, made, runner, arg, ret, lockVars>>

\* An exception in the pass, at the latest in its commit: _runner closes the
\* session, which rolls the UPDATEs back.
PassFail ==
    /\ txn.pc = "loaded"
    /\ txn' = [NoTxn EXCEPT !.last = "aborted", !.n = Cardinality(DOMAIN txn.writes)]
    /\ UNCHANGED <<now, counters, devices, hist, passes, made, runner, arg, ret, lockVars>>

\* --------------------------------------------------------------------
\* Two backend processes, each with its own runner: a pass of one may load
\* the counters while a pass of the other has loaded and not yet committed.
\* Here txn holds the open pass of each process.
\* --------------------------------------------------------------------
Workers == {1, 2}

NoTxns == [p \in Workers |-> NoTxn]

\* The most passes of the two processes together, and the last second of the
\* clock.
OverlapMaxPasses == 3

OverlapMaxSec == 2

\* _tick_once of process p up to its UPDATEs: the SELECT of the enabled
\* counters and the bulk read; the values of the UPDATEs are computed from
\* the rows read.
OverlapLoad(p, interval_sec) ==
    /\ txn[p].pc = "idle"
    /\ passes < OverlapMaxPasses
    /\ passes' = passes + 1
    /\ txn' = [txn EXCEPT ![p] = [pc |-> "loaded",
                                  writes |-> PassWrites(interval_sec),
                                  at |-> now, last |-> "none", n |-> 0]]
    /\ UNCHANGED <<now, counters, devices, hist, made, runner, arg, ret, lockVars>>

\* The UPDATEs of process p ("WHERE id = :id", absolute values) and its
\* commit.
OverlapCommit(p) ==
    /\ txn[p].pc = "loaded"
    /\ counters' = [id \in DOMAIN counters |->
                      IF id \in DOMAIN txn[p].writes
                      THEN ApplyWrite(counters[id], txn[p].writes[id], txn[p].at)
                      ELSE counters[id]]
    /\ txn' = [txn EXCEPT ![p] =
                  [NoTxn EXCEPT !.last = IF DOMAIN txn[p].writes = {}
                                         THEN "returned" ELSE "committed",
                                !.n = Cardinality(DOMAIN txn[p].writes)]]
    /\ UNCHANGED <<now, devices, hist, passes, made, runner, arg, ret, lockVars>>

\* The input of the counter rises, once; the clock goes on.
OverlapNext ==
    \/ \E p \in Workers : OverlapLoad(p, DEFAULT_INTERVAL_SEC)
    \/ \E p \in Workers : OverlapCommit(p)
    \/ SetInput("D1", "di2", RawInt(1))
    \/ AdvanceClock(TicksPerSec, OverlapMaxSec * TicksPerSec)
         /\ UNCHANGED <<lockVars, tickVars, otherVars>>

\* ====================================================================
\* routers/device_counters.py: the counter endpoints (main dashboard)
\* ====================================================================

\* The most requests the counter endpoints serve in one behaviour (made counts
\* them), and the ids of the rows they insert.
MaxMade == 1

FreshIds == <<"n1", "n2", "n3", "n4">>

\* _normalize_field: di1..di6, in1..in6 mapped to di1..di6, or "" if invalid.
NormalizeField(field) ==
    LET f == Lower(Strip(field))
        g == CASE f = "in1" -> "di1" [] f = "in2" -> "di2" [] f = "in3" -> "di3"
               [] f = "in4" -> "di4" [] f = "in5" -> "di5" [] f = "in6" -> "di6"
               [] OTHER -> f
    IN IF g \in DiFields THEN g ELSE ""

\* SELECT * FROM device_counters WHERE user_id = :user_id AND
\* widget_id = :widget_id: the ids of the rows that match.
FindCounter(user_id, widget_id) ==
    { id \in DOMAIN counters : /\ counters[id].user_id = user_id
                               /\ counters[id].widget_id = widget_id }

\* _get_current_field_value: the level of the field on the device the user has
\* claimed, or NULL when there is no such device, field or value.
GetCurrentFieldValue(devs, user_id, device_id, field) ==
    LET d == Strip(device_id)
        f == NormalizeField(field)
    IN IF d = "" \/ f = "" THEN NULL
       ELSE IF ~(d \in DOMAIN devs /\ devs[d].claimed_by_user_id = user_id) THEN NULL
       ELSE IF f \notin DOMAIN devs[d] THEN NULL
       ELSE To01Crud(devs[d][f])

\* cur01 = _get_current_field_value(...); if cur01 is None: cur01 = 0
CurrentOrZero(user_id, device_id, field) ==
    LET cur01 == GetCurrentFieldValue(devices, user_id, device_id, field)
    IN IF cur01 = NULL THEN 0 ELSE cur01

\* POST /create-placeholder: returns the existing row, else inserts a disabled,
\* unbound row that was never ticked.
CreatePlaceholder(user_id, widget_id) ==
    /\ Strip(widget_id) # ""
    /\ FindCounter(user_id, Strip(widget_id)) = {}
    /\ made < MaxMade
    /\ made < Len(FreshIds)
    /\ made' = made + 1
    /\ counters' = [id \in DOMAIN counters \cup {FreshIds[made + 1]} |->
                      IF id \in DOMAIN counters THEN counters[id]
                      ELSE [user_id |-> user_id, widget_id |-> Strip(widget_id),
                            device_id |-> "", field |-> "di1", count |-> 0,
                            prev01 |-> 0, run_seconds |-> 0, last_tick_at |-> NULL,
                            enabled |-> FALSE, updated_at |-> now]]
    /\ UNCHANGED <<now, devices, hist, passes, txn, runner, arg, ret, lockVars>>

\* UpsertRow zeroing the totals whether or not the binding changes.
UpsertRowAlwaysResets(row, device_id, field_norm, enabled, cur01, t) ==
    [row EXCEPT !.device_id = device_id, !.field = field_norm,
                !.enabled = enabled, !.count = 0, !.prev01 = cur01,
                !.run_seconds = 0, !.last_tick_at = t, !.updated_at = t]

\* UpsertRow keeping the totals whether or not the binding changes.
UpsertRowKeepsTotals(row, device_id, field_norm, enabled, cur01, t) ==
    [row EXCEPT !.device_id = device_id, !.field = field_norm,
                !.enabled = enabled, !.prev01 = cur01,
                !.last_tick_at = t, !.updated_at = t]

\* UpsertRow with UPDATEs that leave last_tick_at as it is.
UpsertRowKeepsTickTime(row, device_id, field_norm, enabled, cur01, t) ==
    LET old_device == Strip(row.device_id)
        old_field == Lower(Strip(row.field))
        config_changed == old_device # device_id \/ old_field # field_norm
    IN IF config_changed
       THEN [row EXCEPT !.device_id = device_id, !.field = field_norm,
                        !.enabled = enabled, !.count = 0, !.prev01 = cur01,
                        !.run_seconds = 0, !.updated_at = t]
       ELSE [row EXCEPT !.device_id = device_id, !.field = field_norm,
                        !.enabled = enabled, !.prev01 = cur01,
                        !.updated_at = t]

\* The UPDATE of an upsert on the row it found.
UpsertRow(row, device_id, field_norm, enabled, cur01, t) ==
    LET old_device == Strip(row.device_id)
        old_field == Lower(Strip(row.field))
        config_changed == old_device # device_id \/ old_field # field_norm
    IN IF config_changed
       THEN [row EXCEPT !.device_id = device_id, !.field = field_norm,
                        !.enabled = enabled, !.count = 0, !.prev01 = cur01,
                        !.run_seconds = 0, !.last_tick_at = t, !.updated_at = t]
       ELSE [row EXCEPT !.device_id = device_id, !.field = field_norm,
                        !.enabled = enabled, !.prev01 = cur01,
                        !.last_tick_at = t, !.updated_at = t]

\* POST /upsert: 400 unless widget_id, device_id and a valid field are given;
\* updates the row found (LIMIT 1), else inserts a row.
UpsertCounter(user_id, widget_id, device_id, field, enabled) ==
    LET w == Strip(widget_id)
        d == Strip(device_id)
        field_raw == Strip(field)
        field_norm == NormalizeField(field_raw)
        found == FindCounter(user_id, w)
        cur01 == CurrentOrZero(user_id, d, field_norm)
    IN /\ w # "" /\ d # "" /\ field_raw # ""
       /\ field_norm # ""
       /\ made < MaxMade
       /\ made < Len(FreshIds)
       /\ made' = made + 1
       /\ IF found # {}
          THEN \E id \in found :
                 counters' = [counters EXCEPT
                                ![id] = UpsertRow(counters[id], d, field_norm,
                                                  enabled, cur01, now)]
          ELSE counters' =
                 [id \in DOMAIN counters \cup {FreshIds[made + 1]} |->
                    IF id \in DOMAIN counters THEN counters[id]
                    ELSE [user_id |-> user_id, widget_id |-> w,
                          device_id |-> d, field |-> field_norm,
                          count |-> 0, prev01 |-> cur01,
                          run_seconds |-> 0, last_tick_at |-> now,
                          enabled |-> enabled, updated_at |-> now]]
       /\ UNCHANGED <<now, devices, hist, passes, txn, runner, arg, ret, lockVars>>

\* POST /reset: 404 without a row; zeroes count and run_seconds of the rows of
\* the widget and restarts their timer at the level read for the row found.
ResetCounter(user_id, widget_id) ==
    LET w == Strip(widget_id)
        found == FindCounter(user_id, w)
    IN /\ w # ""
       /\ found # {}
       /\ made < MaxMade
       /\ made' = made + 1
       /\ \E row \in found :
            LET device_id == Strip(counters[row].device_id)
                field == Strip(IF counters[row].field = "" THEN "di1"
                               ELSE counters[row].field)
                cur01 == CurrentOrZero(user_id, device_id, field)
            IN counters' = [id \in DOMAIN counters |->
                              IF id \in found
                              THEN [counters[id] EXCEPT !.count = 0, !.prev01 = cur01,
                                                        !.run_seconds = 0,
                                                        !.last_tick_at = now,
                                                        !.updated_at = now]
                              ELSE counters[id]]
       /\ UNCHANGED <<now, devices, hist, passes, txn, runner, arg, ret, lockVars>>

\* DeleteCounter with a DELETE that is filtered by the widget alone.
DeleteCounterAnyUser(user_id, widget_id) ==
    LET w == Strip(widget_id)
        found == { id \in DOMAIN counters : counters[id].widget_id = w }
    IN /\ w # ""
       /\ found # {}
       /\ made < MaxMade
       /\ made' = made + 1
       /\ counters' = [id \in DOMAIN counters \ found |-> counters[id]]
       /\ UNCHANGED <<now, devices, hist, passes, txn, runner, arg, ret, lockVars>>

\* DELETE /: deletes the rows of the widget, 404 when there was none.
DeleteCounter(user_id, widget_id) ==
    LET w == Strip(widget_id)
        found == FindCounter(user_id, w)
    IN /\ w # ""
       /\ found # {}
       /\ made < MaxMade
       /\ made' = made + 1
       /\ counters' = [id \in DOMAIN counters \ found |-> counters[id]]
       /\ UNCHANGED <<now, devices, hist, passes, txn, runner, arg, ret, lockVars>>

\* --------------------------------------------------------------------
\* The same endpoints statement by statement, with the dashboard: a request
\* that found no row has its INSERT still to run, and the other request runs
\* in between.
\* --------------------------------------------------------------------

\* _normalize_dashboard_id_text: None for None, a blank or "main" in any
\* case, else the stripped text.
NormalizeDashboardIdText(dashboard_id) ==
    LET s == Strip(IF dashboard_id = NoneStr THEN "" ELSE dashboard_id)
    IN IF s = "" THEN NoneStr
       ELSE IF Lower(s) = "main" THEN NoneStr
       ELSE s

\* The unique key of device_counters on (user_id, dashboard_id, widget_id),
\* NULL standing for the main dashboard: an INSERT raises IntegrityError when
\* a row with the key is in the table.
CounterKeyTaken(table, user_id, dashboard_id, widget_id) ==
    \E id \in DOMAIN table : /\ table[id].user_id = user_id
                             /\ table[id].dashboard_id = dashboard_id
                             /\ table[id].widget_id = widget_id

\* SELECT ... WHERE user_id AND widget_id AND dashboard_id = :dashboard_id (or
\* IS NULL): the ids of the rows that match.
FindCounterOn(user_id, dashboard_id, widget_id) ==
    { id \in DOMAIN counters : /\ counters[id].user_id = user_id
                               /\ counters[id].widget_id = widget_id
                               /\ counters[id].dashboard_id = dashboard_id }

\* return _row_to_dict(row) of create-placeholder: the response carries the
\* row. (The response of an upsert is kept as its kind and status.)
RowResult(row) == [NoResult EXCEPT !.kind = "row", !.status = 200, !.data = row]

\* The row an INSERT of the request q stores at time t: the columns the
\* request made ready, NOW() for updated_at and for a last_tick_at that is
\* not NULL.
InsertedRow(q, t) ==
    [f \in DOMAIN q \ {"op"} |->
       IF f = "updated_at" THEN t
       ELSE IF f = "last_tick_at" /\ q[f] # NULL THEN t
       ELSE q[f]]

\* PlaceholderFind comparing with "dashboard_id = :dashboard_id" also for the
\* main dashboard: NULL = NULL matches no row.
PlaceholderFindNullNeverMatches(r, user_id, widget_id, dashboard_id) ==
    LET w == Strip(widget_id)
        dash == NormalizeDashboardIdText(dashboard_id)
        existing == IF dash = NoneStr THEN {} ELSE FindCounterOn(user_id, dash, w)
    IN /\ pc[r] \in {"idle", "done"}
       /\ w # ""
       /\ IF existing # {}
          THEN /\ \E id \in existing :
                    result' = [result EXCEPT ![r] = RowResult(counters[id])]
               /\ pc' = [pc EXCEPT ![r] = "done"]
               /\ req' = [req EXCEPT ![r] = NoReq]
          ELSE /\ pc' = [pc EXCEPT ![r] = "insert"]
               /\ req' = [req EXCEPT ![r] =
                            [op |-> "create-placeholder",
                             user_id |-> user_id, dashboard_id |-> dash,
                             widget_id |-> w, device_id |-> "", field |-> "di1",
                             count |-> 0, prev01 |-> 0, run_seconds |-> 0,
                             last_tick_at |-> NULL, enabled |-> FALSE,
                             updated_at |-> now]]
               /\ result' = [result EXCEPT ![r] = NoResult]
       /\ UNCHANGED <<now, locks, db, db2, posted, tickVars, otherVars>>

\* PlaceholderFind as an upsert: the row found is put back to the placeholder
\* values and returned.
PlaceholderFindResetsExisting(r, user_id, widget_id, dashboard_id) ==
    LET w == Strip(widget_id)
        dash == NormalizeDashboardIdText(dashboard_id)
        existing == FindCounterOn(user_id, dash, w)
    IN /\ pc[r] \in {"idle", "done"}
       /\ w # ""
       /\ IF existing # {}
          THEN /\ \E id \in existing :
                    /\ counters' = [counters EXCEPT
                                      ![id] = [@ EXCEPT !.device_id = "",
                                                        !.field = "di1",
                                                        !.count = 0,
                                                        !.prev01 = 0,
                                                        !.run_seconds = 0,
                                                        !.last_tick_at = NULL,
                                                        !.enabled = FALSE]]
                    /\ result' = [result EXCEPT ![r] = RowResult(counters'[id])]
               /\ pc' = [pc EXCEPT ![r] = "done"]
               /\ req' = [req EXCEPT ![r] = NoReq]
          ELSE /\ pc' = [pc EXCEPT ![r] = "insert"]
               /\ req' = [req EXCEPT ![r] =
                            [op |-> "create-placeholder",
                             user_id |-> user_id, dashboard_id |-> dash,
                             widget_id |-> w, device_id |-> "", field |-> "di1",
                             count |-> 0, prev01 |-> 0, run_seconds |-> 0,
                             last_tick_at |-> NULL, enabled |-> FALSE,
                             updated_at |-> now]]
               /\ result' = [result EXCEPT ![r] = NoResult]
               /\ counters' = counters
       /\ UNCHANGED <<now, locks, db, db2, posted, devices, hist, passes, otherVars>>

\* create_placeholder_counter up to its INSERT: the row of the widget on the
\* dashboard is looked up; when there is one it is returned and the request
\* ends, else the placeholder row is made ready.
PlaceholderFind(r, user_id, widget_id, dashboard_id) ==
    LET w == Strip(widget_id)
        dash == NormalizeDashboardIdText(dashboard_id)
        existing == FindCounterOn(user_id, dash, w)
    IN /\ pc[r] \in {"idle", "done"}
       /\ w # ""
       /\ IF existing # {}
          THEN /\ \E id \in existing :
                    result' = [result EXCEPT ![r] = RowResult(counters[id])]
               /\ pc' = [pc EXCEPT ![r] = "done"]
               /\ req' = [req EXCEPT ![r] = NoReq]
          ELSE /\ pc' = [pc EXCEPT ![r] = "insert"]
               /\ req' = [req EXCEPT ![r] =
                            [op |-> "create-placeholder",
                             user_id |-> user_id, dashboard_id |-> dash,
                             widget_id |-> w, device_id |-> "", field |-> "di1",
                             count |-> 0, prev01 |-> 0, run_seconds |-> 0,
                             last_tick_at |-> NULL, enabled |-> FALSE,
                             updated_at |-> now]]
               /\ result' = [result EXCEPT ![r] = NoResult]
       /\ UNCHANGED <<now, locks, db, db2, posted, tickVars, otherVars>>

\* upsert_counter up to its INSERT: without a dashboard_id in the body the row
\* is looked up by user and widget alone; the row found (LIMIT 1) is updated
\* and the request ends, else the new row is made ready.
UpsertFind(r, user_id, widget_id, dashboard_id, device_id, field, enabled) ==
    LET w == Strip(widget_id)
        d == Strip(device_id)
        field_raw == Strip(field)
        field_norm == NormalizeField(field_raw)
        dash == NormalizeDashboardIdText(dashboard_id)
        found == IF dashboard_id # NoneStr THEN FindCounterOn(user_id, dash, w)
                 ELSE FindCounter(user_id, w)
        cur01 == CurrentOrZero(user_id, d, field_norm)
    IN /\ pc[r] \in {"idle", "done"}
       /\ w # "" /\ d # "" /\ field_raw # ""
       /\ field_norm # ""
       /\ IF found # {}
          THEN /\ \E id \in found :
                    counters' = [counters EXCEPT
                                   ![id] = UpsertRow(counters[id], d, field_norm,
                                                     enabled, cur01, now)]
               /\ pc' = [pc EXCEPT ![r] = "done"]
               /\ req' = [req EXCEPT ![r] = NoReq]
               /\ result' = [result EXCEPT ![r] = [NoResult EXCEPT !.kind = "row",
                                                                    !.status = 200]]
          ELSE /\ counters' = counters
               /\ pc' = [pc EXCEPT ![r] = "insert"]
               /\ req' = [req EXCEPT ![r] =
                            [op |-> "upsert",
                             user_id |-> user_id, dashboard_id |-> dash,
                             widget_id |-> w, device_id |-> d, field |-> field_norm,
                             count |-> 0, prev01 |-> cur01, run_seconds |-> 0,
                             last_tick_at |-> now, enabled |-> enabled,
                             updated_at |-> now]]
               /\ result' = [result EXCEPT ![r] = NoResult]
       /\ UNCHANGED <<now, locks, db, db2, posted, devices, hist, passes, otherVars>>

\* INSERT INTO public.device_counters ... RETURNING *; db.commit(): the row is
\* in under a new id, or the key is taken and the IntegrityError, which the
\* handler does not catch, ends the request with a 500.
InsertCounter(r) ==
    /\ pc[r] = "insert"
    /\ pc' = [pc EXCEPT ![r] = "done"]
    /\ req' = [req EXCEPT ![r] = NoReq]
    /\ IF CounterKeyTaken(counters, req[r].user_id, req[r].dashboard_id,
                          req[r].widget_id)
       THEN /\ result' = [result EXCEPT ![r] = HttpError(500)]
            /\ UNCHANGED <<counters, made>>
       ELSE /\ made < Len(FreshIds)
            /\ made' = made + 1
            /\ counters' = [id \in DOMAIN counters \cup {FreshIds[made + 1]} |->
                              IF id \in DOMAIN counters THEN counters[id]
                              ELSE InsertedRow(req[r], now)]
            /\ result' = [result EXCEPT ![r] =
                             IF req[r].op = "create-placeholder"
                             THEN RowResult(InsertedRow(req[r], now))
                             ELSE [NoResult EXCEPT !.kind = "row", !.status = 200]]
    /\ UNCHANGED <<now, locks, db, db2, posted, devices, hist, passes, txn, runner,
                   arg, ret>>

\* The dashboard_id of a request's body: absent, the main dashboard by name,
\* a dashboard's id with a blank before it.
DashboardInputs == {NoneStr, "Main", " d7"}

\* Two requests at a time, each one a create-placeholder or an upsert that
\* binds and enables the counter.
InsertRequests == {r \in Requests : r <= 2}

InsertNext ==
    \/ \E r \in InsertRequests, u \in Users, w \in {"w1"}, dash \in DashboardInputs :
          PlaceholderFind(r, u, w, dash)
    \/ \E r \in InsertRequests, u \in Users, w \in {"w1"}, dash \in DashboardInputs :
          UpsertFind(r, u, w, dash, "D1", "di2", TRUE)
    \/ \E r \in InsertRequests : InsertCounter(r)

\* ====================================================================
\* routers/zhc1921_devices.py: claims on the devices
\* ====================================================================

\* POST /unclaim: 403 unless the caller holds the claim.
UnclaimDevice(user_id, device_id) ==
    /\ device_id \in DOMAIN devices
    /\ devices[device_id].claimed_by_user_id = user_id
    /\ devices' = [devices EXCEPT ![device_id].claimed_by_user_id = NULL]
    /\ UNCHANGED <<now, counters, hist, passes, made, txn, runner, arg, ret, lockVars>>

\* POST /claim: 409 when another user holds the claim.
ClaimDevice(user_id, device_id) ==
    /\ device_id \in DOMAIN devices
    /\ devices[device_id].claimed_by_user_id = NULL
    /\ devices' = [devices EXCEPT ![device_id].claimed_by_user_id = user_id]
    /\ UNCHANGED <<now, counters, hist, passes, made, txn, runner, arg, ret, lockVars>>

\* DELETE /devices/{device_id} by the owner: 409 while the device is claimed.
DeleteDevice(device_id) ==
    /\ device_id \in DOMAIN devices
    /\ devices[device_id].claimed_by_user_id = NULL
    /\ devices' = [d \in DOMAIN devices \ {device_id} |-> devices[d]]
    /\ UNCHANGED <<now, counters, hist, passes, made, txn, runner, arg, ret, lockVars>>

\* --------------------------------------------------------------------
\* The same two endpoints statement by statement: the row is read, the checks
\* are made on what was read, and the UPDATE of the row is committed after the
\* other request may have run.
\* --------------------------------------------------------------------

\* claim_zhc1921_device up to its UPDATE: 404 without a row, 409 when another
\* user holds the claim, the claim as it is when the caller holds it, else the
\* claim is still to be written.
ClaimRead(r, user_id, device_id) ==
    LET d == Strip(device_id)
    IN /\ pc[r] \in {"idle", "done"}
       /\ d # ""
       /\ IF d \notin DOMAIN devices
          THEN /\ result' = [result EXCEPT ![r] = HttpError(404)]
               /\ pc' = [pc EXCEPT ![r] = "done"]
               /\ req' = [req EXCEPT ![r] = NoReq]
          ELSE IF /\ devices[d].claimed_by_user_id # NULL
                  /\ devices[d].claimed_by_user_id # user_id
          THEN /\ result' = [result EXCEPT ![r] = HttpError(409)]
               /\ pc' = [pc EXCEPT ![r] = "done"]
               /\ req' = [req EXCEPT ![r] = NoReq]
          ELSE IF devices[d].claimed_by_user_id = user_id
          THEN /\ result' = [result EXCEPT ![r] = ClaimResult(TRUE)]
               /\ pc' = [pc EXCEPT ![r] = "done"]
               /\ req' = [req EXCEPT ![r] = NoReq]
          ELSE /\ result' = [result EXCEPT ![r] = NoResult]
               /\ pc' = [pc EXCEPT ![r] = "claim"]
               /\ req' = [req EXCEPT ![r] = [NoReq EXCEPT !.user_id = user_id,
                                                          !.device_id = d]]
       /\ UNCHANGED <<now, locks, db, db2, posted, tickVars, otherVars>>

\* row.claimed_by_user_id = current_user.id; db.add(row); db.commit(): the
\* UPDATE is of the row by its primary key, whatever the row holds by now.
ClaimWrite(r) ==
    /\ pc[r] = "claim"
    /\ pc' = [pc EXCEPT ![r] = "done"]
    /\ req' = [req EXCEPT ![r] = NoReq]
    /\ devices' = [devices EXCEPT
                     ![req[r].device_id].claimed_by_user_id = req[r].user_id]
    /\ result' = [result EXCEPT ![r] = ClaimResult(TRUE)]
    /\ UNCHANGED <<now, locks, db, db2, posted, counters, hist, passes, otherVars>>

\* unclaim_zhc1921_device up to its UPDATE: 404 without a row, 403 unless the
\* caller holds the claim.
UnclaimRead(r, user_id, device_id) ==
    LET d == Strip(device_id)
    IN /\ pc[r] \in {"idle", "done"}
       /\ d # ""
       /\ IF d \notin DOMAIN devices
          THEN /\ result' = [result EXCEPT ![r] = HttpError(404)]
               /\ pc' = [pc EXCEPT ![r] = "done"]
               /\ req' = [req EXCEPT ![r] = NoReq]
          ELSE IF devices[d].claimed_by_user_id # user_id
          THEN /\ result' = [result EXCEPT ![r] = HttpError(403)]
               /\ pc' = [pc EXCEPT ![r] = "done"]
               /\ req' = [req EXCEPT ![r] = NoReq]
          ELSE /\ result' = [result EXCEPT ![r] = NoResult]
               /\ pc' = [pc EXCEPT ![r] = "unclaim"]
               /\ req' = [req EXCEPT ![r] = [NoReq EXCEPT !.user_id = user_id,
                                                          !.device_id = d]]
       /\ UNCHANGED <<now, locks, db, db2, posted, tickVars, otherVars>>

\* row.claimed_by_user_id = None; db.add(row); db.commit()
UnclaimWrite(r) ==
    /\ pc[r] = "unclaim"
    /\ pc' = [pc EXCEPT ![r] = "done"]
    /\ req' = [req EXCEPT ![r] = NoReq]
    /\ devices' = [devices EXCEPT ![req[r].device_id].claimed_by_user_id = NULL]
    /\ result' = [result EXCEPT ![r] = ClaimResult(FALSE)]
    /\ UNCHANGED <<now, locks, db, db2, posted, counters, hist, passes, otherVars>>

\* Two requests at a time, by either user, for a device of each user and for
\* a device_id without a row.
ClaimRequests == {r \in Requests : r <= 2}

ClaimDevices == {"D1", "d1", " d7"}

ClaimNext ==
    \/ \E r \in ClaimRequests, u \in Users, d \in ClaimDevices : ClaimRead(r, u, d)
    \/ \E r \in ClaimRequests : ClaimWrite(r)
    \/ \E r \in ClaimRequests, u \in Users, d \in ClaimDevices : UnclaimRead(r, u, d)
    \/ \E r \in ClaimRequests : UnclaimWrite(r)

\* The requests the endpoints receive.
CrudUsers == {1}

CrudDevices == {"D1", "d1"}

CrudFields == {"di2", " IN2", "di9"}

CounterMaxSec == 1

CounterNext ==
    \/ PassLoad(DEFAULT_INTERVAL_SEC)
    \/ PassCommit
    \/ PassFail
    \/ \E u \in CrudUsers, w \in WidgetIds : CreatePlaceholder(u, w)
    \/ \E u \in CrudUsers, w \in WidgetIds, d \in CrudDevices, f \in CrudFields,
          e \in BOOLEAN : UpsertCounter(u, w, d, f, e)
    \/ \E u \in CrudUsers, w \in WidgetIds : ResetCounter(u, w)
    \/ \E u \in CrudUsers, w \in WidgetIds : DeleteCounter(u, w)
    \/ SetInput("D1", "di2", RawInt(0))
    \/ SetInput("D1", "di2", RawInt(1))
    \/ \E u \in CrudUsers : UnclaimDevice(u, "D1")
    \/ \E u \in CrudUsers : ClaimDevice(u, "D1")
    \/ DeleteDevice("D1")
    \/ AdvanceClock(TicksPerSec, CounterMaxSec * TicksPerSec)
         /\ UNCHANGED <<lockVars, tickVars, otherVars>>

\* ====================================================================
\* routers/device_counters_tick.py: the background task
\* ====================================================================

\* The clock stops at RunnerMaxSec seconds.
RunnerMaxSec == 4

\* start_device_counters_tick: returns when a task exists and is not done,
\* else creates the task, which enters its first pass.
StartRunner ==
    /\ runner.pc \notin {"pass", "sleep"}
    /\ runner' = [pc |-> "pass", failed |-> FALSE]
    /\ UNCHANGED <<now, made, txn, arg, ret, lockVars, tickVars>>

\* _runner: the session is opened, _tick_once returns, the session is
\* closed, and the task reaches await asyncio.sleep(interval_sec).
RunnerPass(interval_sec) ==
    /\ runner.pc = "pass"
    /\ runner' = [pc |-> "sleep", failed |-> FALSE]
    /\ passes' = Min(passes + 1, MaxPasses)
    /\ counters' = [id \in DOMAIN counters |->
                      LET cur01 == Cur01(counters[id], devices)
                      IN IF cur01 = NULL THEN counters[id]
                         ELSE TickCounter(counters[id], cur01, now, interval_sec)]
    /\ UNCHANGED <<now, devices, hist, made, txn, arg, ret, lockVars>>

\* RunnerPassFails for a loop without the except clause: the exception ends
\* the task.
RunnerPassFailsEndsTask ==
    /\ runner.pc = "pass"
    /\ runner' = [pc |-> "raised", failed |-> TRUE]
    /\ UNCHANGED <<now, made, txn, arg, ret, lockVars, tickVars>>

\* _runner: SessionLocal(), _tick_once or db.close() raises an Exception; the
\* session is closed without a commit, except Exception prints the error, and
\* the task reaches await asyncio.sleep(interval_sec).
RunnerPassFails ==
    /\ runner.pc = "pass"
    /\ runner' = [pc |-> "sleep", failed |-> TRUE]
    /\ UNCHANGED <<now, made, txn, arg, ret, lockVars, tickVars>>

\* RunnerWake for a loop that catches the cancellation with the errors of the
\* pass (except BaseException around the sleep): the cancelled task goes on.
RunnerWakeSwallowsCancel(interval_sec) ==
    /\ runner.pc \in {"sleep", "cancelled"}
    /\ runner' = [runner EXCEPT !.pc = "pass"]
    /\ now' = Min(now + interval_sec * TicksPerSec, RunnerMaxSec * TicksPerSec)
    /\ UNCHANGED <<made, txn, arg, ret, lockVars, tickVars>>

\* await asyncio.sleep(interval_sec) returns: the loop starts its next pass.
RunnerWake(interval_sec) ==
    /\ runner.pc = "sleep"
    /\ runner' = [runner EXCEPT !.pc = "pass"]
    /\ now' = Min(now + interval_sec * TicksPerSec, RunnerMaxSec * TicksPerSec)
    /\ UNCHANGED <<made, txn, arg, ret, lockVars, tickVars>>

\* stop_device_counters_tick: the task is cancelled where it waits, in its
\* sleep (a pass is synchronous and does not yield to the event loop);
\* CancelledError is not an Exception and ends the loop.
StopRunner ==
    /\ runner.pc = "sleep"
    /\ runner' = [runner EXCEPT !.pc = "cancelled"]
    /\ UNCHANGED <<now, made, txn, arg, ret, lockVars, tickVars>>

RunnerNext ==
    \/ StartRunner
    \/ RunnerPass(DEFAULT_INTERVAL_SEC)
    \/ RunnerPassFails
    \/ RunnerWake(DEFAULT_INTERVAL_SEC)
    \/ StopRunner
    \/ passes < MaxPasses /\ SetInput("D1", "di2", RawInt(0))
    \/ passes < MaxPasses /\ SetInput("D1", "di2", RawInt(1))

\* --------------------------------------------------------------------
\* The tasks one by one: _task is the handle of the module, a task lives from
\* create_task until the CancelledError has ended it, and a call of
\* stop_device_counters_tick waits in "await _task". Here runner holds the
\* handle (0 for None), the state of each task created so far and, for each
\* caller of stop, the task it awaits (0 when it is not in the call).
\* --------------------------------------------------------------------

\* The tasks the calls may create, and the callers of stop.
MaxTasks == 3

NumStoppers == 2

Stoppers == 1..NumStoppers

NoTasks == [handle |-> 0, tasks |-> << >>, stops |-> [s \in Stoppers |-> 0]]

\* not task.done()
TaskAlive(i) == runner.tasks[i] # "cancelled"

\* start_device_counters_tick: "if _task and not _task.done(): return", else
\* _task = loop.create_task(_runner(...)).
TaskStart ==
    /\ ~(runner.handle # 0 /\ TaskAlive(runner.handle))
    /\ Len(runner.tasks) < MaxTasks
    /\ runner' = [runner EXCEPT !.tasks = Append(@, "pass"),
                                !.handle = Len(runner.tasks) + 1]
    /\ UNCHANGED <<now, made, txn, arg, ret, lockVars, tickVars>>

\* _runner of task i: one pass, by returning or by raising, up to the sleep.
TaskPass(i, interval_sec) ==
    /\ i \in DOMAIN runner.tasks
    /\ runner.tasks[i] = "pass"
    /\ runner' = [runner EXCEPT !.tasks[i] = "sleep"]
    /\ passes' = Min(passes + 1, MaxPasses)
    /\ \/ counters' = [id \in DOMAIN counters |->
                         LET cur01 == Cur01(counters[id], devices)
                         IN IF cur01 = NULL THEN counters[id]
                            ELSE TickCounter(counters[id], cur01, now, interval_sec)]
       \/ counters' = counters
    /\ UNCHANGED <<now, devices, hist, made, txn, arg, ret, lockVars>>

\* await asyncio.sleep(interval_sec) of task i returns.
TaskWake(i) ==
    /\ i \in DOMAIN runner.tasks
    /\ runner.tasks[i] = "sleep"
    /\ runner' = [runner EXCEPT !.tasks[i] = "pass"]
    /\ UNCHANGED <<now, made, txn, arg, ret, lockVars, tickVars>>

\* The event loop runs the cancelled task i: CancelledError is raised at its
\* await, outside the try of the pass, and the task is done.
TaskCancelled(i) ==
    /\ i \in DOMAIN runner.tasks
    /\ runner.tasks[i] = "cancelling"
    /\ runner' = [runner EXCEPT !.tasks[i] = "cancelled"]
    /\ UNCHANGED <<now, made, txn, arg, ret, lockVars, tickVars>>

\* stop_device_counters_tick by caller s up to "await _task": returns when
\* _task is None; _task.cancel(); a task that is done already is not waited
\* for and _task = None follows at once.
StopBegin(s) ==
    /\ runner.stops[s] = 0
    /\ runner.handle # 0
    /\ IF TaskAlive(runner.handle)
       THEN runner' = [runner EXCEPT !.tasks[runner.handle] = "cancelling",
                                     !.stops[s] = runner.handle]
       ELSE runner' = [runner EXCEPT !.handle = 0]
    /\ UNCHANGED <<now, made, txn, arg, ret, lockVars, tickVars>>

\* The awaited task is done: the caller s of stop goes on after its await,
\* _task = None.
StopResume(s) ==
    /\ runner.stops[s] # 0
    /\ ~TaskAlive(runner.stops[s])
    /\ runner' = [runner EXCEPT !.handle = 0, !.stops[s] = 0]
    /\ UNCHANGED <<now, made, txn, arg, ret, lockVars, tickVars>>

TaskNext ==
    \/ TaskStart
    \/ \E i \in 1..MaxTasks : TaskPass(i, DEFAULT_INTERVAL_SEC)
    \/ \E i \in 1..MaxTasks : TaskWake(i)
    \/ \E i \in 1..MaxTasks : TaskCancelled(i)
    \/ \E s \in Stoppers : StopBegin(s)
    \/ \E s \in Stoppers : StopResume(s)

\* ====================================================================
\* The initial state and the specifications
\* ====================================================================
CounterIds == {"c1", "c3", "c4"}

\* The row of the worked scenario: bound, enabled, last ticked at T0 = 0 with
\* level prev.
ScenarioRow(prev) ==
    [user_id |-> 1, widget_id |-> "w1", device_id |-> "D1", field |-> "di2", count |-> 5,
     prev01 |-> prev, run_seconds |-> 100, last_tick_at |-> 0,
     enabled |-> TRUE, updated_at |-> 0]

\* An enabled row that was never ticked, with a legacy field name.
LegacyRow ==
    [user_id |-> 1, widget_id |-> "w1", device_id |-> "D1", field |-> " IN2", count |-> 0,
     prev01 |-> 0, run_seconds |-> 0, last_tick_at |-> NULL,
     enabled |-> TRUE, updated_at |-> 0]

\* A counter of user 2 on a device that user 1 has claimed.
ForeignRow ==
    [user_id |-> 2, widget_id |-> "w1", device_id |-> "D1", field |-> "di2", count |-> 0,
     prev01 |-> 0, run_seconds |-> 0, last_tick_at |-> NULL,
     enabled |-> TRUE, updated_at |-> 0]

\* What create-placeholder inserts: disabled, unbound, never ticked.
PlaceholderRow ==
    [user_id |-> 1, widget_id |-> "w2", device_id |-> "", field |-> "di1", count |-> 0,
     prev01 |-> 0, run_seconds |-> 0, last_tick_at |-> NULL,
     enabled |-> FALSE, updated_at |-> 0]

InitDevices(v) ==
    [D1 |-> [claimed_by_user_id |-> 1, di2 |-> v],
     d1 |-> [claimed_by_user_id |-> 2, di2 |-> RawInt(0)]]

InitLocks ==
    /\ locks = {}
    /\ pc = [r \in Requests |-> "idle"]
    /\ req = [r \in Requests |-> NoReq]
    /\ db = [r \in Requests |-> "closed"]
    /\ db2 = [r \in Requests |-> "none"]
    /\ result = [r \in Requests |-> NoResult]
    /\ posted = [r \in Requests |-> FALSE]


InitOther ==
    /\ made = 0
    /\ txn = NoTxn
    /\ runner = NoRunner
    /\ arg = NoArg
    /\ ret = NoArg

InitTick(row, v) ==
    /\ counters = [id \in CounterIds |->
                     IF id = "c1" THEN row
                     ELSE IF id = "c3" THEN ForeignRow ELSE PlaceholderRow]
    /\ hist = [id \in CounterIds |->
                 IF id = "c1" /\ row.last_tick_at # NULL
                 THEN [NoHist EXCEPT !.obs = row.prev01]
                 ELSE NoHist]
    /\ devices = InitDevices(v)
    /\ passes = 0

\* No request is running, the lock table is empty, the clock reads 0.
Init ==
    /\ now = 0
    /\ InitLocks
    /\ InitOther
    /\ InitTick(ScenarioRow(0), RawInt(0))

\* The same, with the bound counter in one of its three starting rows and the
\* input null or at either level.
TickInit ==
    /\ now = 0
    /\ InitLocks
    /\ InitOther
    /\ \E row \in {ScenarioRow(0), ScenarioRow(1), LegacyRow}, v \in RawValues :
          InitTick(row, v)

\* _post_to_node_red_wait about to be applied to one of its inputs.
GatewayInit ==
    /\ now = 0
    /\ InitLocks
    /\ InitTick(ScenarioRow(0), RawInt(0))
    /\ made = 0
    /\ txn = NoTxn
    /\ runner = NoRunner
    /\ arg \in GatewayInputs
    /\ ret = NoArg

GatewayNext == ApplyPostToNodeRedWait

\* The lock protocol of write_control_do.
Spec == Init /\ [][LockNext]_vars

\* The lock protocol, with the rows traced to the requests that inserted them.
OwnRowSpec == Init /\ [][OwnRowNext]_vars

\* The gateway call's result mapping.
GatewaySpec == GatewayInit /\ [][GatewayNext]_vars

\* The counter endpoints, the claims and the passes of the engine, interleaved.
CounterInit ==
    /\ now = 0
    /\ InitLocks
    /\ InitOther
    /\ counters = [id \in {"c1", "c3"} |->
                     IF id = "c1" THEN ScenarioRow(0) ELSE ForeignRow]
    /\ hist = [id \in CounterIds |-> NoHist]
    /\ devices = InitDevices(RawInt(0))
    /\ passes = 0

CounterSpec == CounterInit /\ [][CounterNext]_vars

\* The endpoints and the passes over a table that holds what the operations
\* put there: the placeholder of a widget that was dropped on the canvas.
ProducedInit ==
    /\ now = 0
    /\ InitLocks
    /\ InitOther
    /\ counters = [id \in {"c4"} |-> PlaceholderRow]
    /\ hist = [id \in CounterIds |-> NoHist]
    /\ devices = InitDevices(RawInt(0))
    /\ passes = 0

ProducedSpec == ProducedInit /\ [][CounterNext]_vars

\* The claim and unclaim requests, statement by statement: each user holds
\* the claim of one device.
ClaimInit ==
    /\ now = 0
    /\ InitLocks
    /\ InitOther
    /\ counters = << >>
    /\ hist = [id \in CounterIds |-> NoHist]
    /\ devices = InitDevices(RawInt(0))
    /\ passes = 0

ClaimSpec == ClaimInit /\ [][ClaimNext]_vars

\* The calls of start and stop and the tasks they create, before the startup
\* hook has run: _task = None.
TaskInit ==
    /\ now = 0
    /\ InitLocks
    /\ InitTick(ScenarioRow(0), RawInt(1))
    /\ made = 0
    /\ txn = NoTxn
    /\ runner = NoTasks
    /\ arg = NoArg
    /\ ret = NoArg

TaskSpec == TaskInit /\ [][TaskNext]_vars

\* The passes of two processes over the counter of the worked scenario, its
\* input at 0 and either level stored as the last one seen.
OverlapInit ==
    /\ now = 0
    /\ InitLocks
    /\ \E prev \in {0, 1} : InitTick(ScenarioRow(prev), RawInt(0))
    /\ made = 0
    /\ txn = NoTxns
    /\ runner = NoRunner
    /\ arg = NoArg
    /\ ret = NoArg

OverlapSpec == OverlapInit /\ [][OverlapNext]_vars

\* A normalizer pair or a coercion pair about to be applied to one input.
PureInit ==
    /\ now = 0
    /\ InitLocks
    /\ InitTick(ScenarioRow(0), RawInt(0))
    /\ made = 0
    /\ txn = NoTxn
    /\ runner = NoRunner
    /\ arg \in PureInputs
    /\ ret = NoArg

PureSpec == PureInit /\ [][PureNext]_vars

\* The row with its dashboard_id column.
OnDashboard(row, dashboard_id) ==
    [f \in DOMAIN row \cup {"dashboard_id"} |->
       IF f = "dashboard_id" THEN dashboard_id ELSE row[f]]

\* The requests of create-placeholder and upsert, statement by statement: the
\* table holds the counter of user 1 on the main dashboard.
InsertInit ==
    /\ now = 0
    /\ InitLocks
    /\ InitOther
    /\ counters = [id \in {"c1"} |-> OnDashboard(ScenarioRow(0), NoneStr)]
    /\ hist = [id \in CounterIds |-> NoHist]
    /\ devices = InitDevices(RawInt(0))
    /\ passes = 0

InsertSpec == InsertInit /\ [][InsertNext]_vars

\* The background task. A pass ends, by returning or by raising, and a sleep
\* that is not cancelled returns.
RunnerFairness ==
    /\ WF_vars(RunnerPass(DEFAULT_INTERVAL_SEC) \/ RunnerPassFails)
    /\ WF_vars(RunnerWake(DEFAULT_INTERVAL_SEC))

RunnerSpec == Init /\ [][RunnerNext]_vars /\ RunnerFairness

\* The counter tick engine.
TickSpec == TickInit /\ [][TickNext]_vars

\* ====================================================================
\* The claims about the actuation lock (checked under Spec)
\* ====================================================================
RowsOfKey(table, lk) == { row \in table : row.lock_key = lk }

\* C1: of the write requests that try to insert the lock row for one key, one
\* wins: an insert succeeds exactly when no row with the key is in the table,
\* and then puts exactly one in; otherwise the request ends with the 409
\* "Control Action in Progress" and the table is as it was; either way a
\* rival still at its insert for the same key finds the key taken.
C1_ExactlyOneInsertWins ==
    [][\A r \in Requests :
         InsertLock(r) =>
           LET lk == req[r].lk
               taken == LockKeyTaken(locks, lk)
           IN /\ taken => /\ pc'[r] = "done"
                          /\ result'[r] = HttpError(409)
                          /\ locks' = locks
              /\ ~taken => /\ pc'[r] = "close"
                           /\ locks' = locks \cup {LockRow(r)}
              /\ Cardinality(RowsOfKey(locks', lk)) = 1
              /\ \A r2 \in Requests \ {r} :
                    (pc[r2] = "insert" /\ req[r2].lk = lk)
                      => (pc'[r2] = "insert" /\ LockKeyTaken(locks', req'[r2].lk))]_vars

\* Two requests raced for one key: one holds the only row and has not yet
\* called the gateway, the other was turned away with the 409.
C1_Witness ==
    \E r1, r2 \in Requests :
        /\ r1 # r2
        /\ pc[r1] = "close"
        /\ RowsOfKey(locks, req[r1].lk) = locks
        /\ Cardinality(locks) = 1
        /\ pc[r2] = "done"
        /\ result[r2] = HttpError(409)

\* C2: at most one gateway write is in flight for a lock key.
C2_AtMostOneInFlight ==
    \A r1, r2 \in Requests :
        (r1 # r2 /\ pc[r1] = "inflight" /\ pc[r2] = "inflight")
          => req[r1].lk # req[r2].lk

Pass == TickOnce(DEFAULT_INTERVAL_SEC)

\* The level the pass about to run observes for a counter (NULL: it skips
\* the counter), and the time since the counter's last_tick_at, in ticks.
Obs(id) == Cur01(counters[id], devices)
Elapsed(id) == now - counters[id].last_tick_at

SpecMaxDelta == Max(5, 3 * DEFAULT_INTERVAL_SEC)

\* C5 as claimed: a counter observed at level 0 by the previous pass and at
\* level 1 by this one, some time after its last_tick_at, has its count
\* increased by exactly 1 and its run_seconds not increased.
C5_EdgeTickAddsNoRunTime ==
    [][Pass =>
         \A id \in DOMAIN counters :
            (/\ hist[id].obs = 0
             /\ Obs(id) = 1
             /\ counters[id].last_tick_at # NULL
             /\ Elapsed(id) > 0)
              => /\ counters'[id].count = counters[id].count + 1
                 /\ counters'[id].run_seconds = counters[id].run_seconds]_vars

\* C5 as amended: such a pass increases count by exactly 1 and run_seconds by
\* the whole seconds since last_tick_at, clamped to [0, max(5, 3*interval)].
C5_EdgeTickCountsOnceAndAccrues ==
    [][Pass =>
         \A id \in DOMAIN counters :
            (/\ hist[id].obs = 0
             /\ Obs(id) = 1
             /\ counters[id].last_tick_at # NULL
             /\ Elapsed(id) > 0)
              => /\ counters'[id].count = counters[id].count + 1
                 /\ counters'[id].run_seconds =
                      counters[id].run_seconds
                        + Min(Max(TruncDiv(Elapsed(id), TicksPerSec), 0), SpecMaxDelta)]_vars

\* Two passes: the first observed 0, the second, two seconds after
\* last_tick_at, observed 1, counted the edge and added the two seconds.
C5_Witness ==
    /\ passes = 2
    /\ hist["c1"].was = 0
    /\ hist["c1"].obs = 1
    /\ counters["c1"].count = 6
    /\ counters["c1"].run_seconds = 102
    /\ counters["c1"].last_tick_at = 2 * TicksPerSec

\* C6: a pass changes a counter's count only when the stored prev_level is 0
\* and the observed level is 1, and then by exactly +1; a falling edge or a
\* steady level leaves count as it was.
C6_CountOnlyOnRisingEdge ==
    [][Pass =>
         \A id \in DOMAIN counters :
            /\ counters'[id].count # counters[id].count
                 => /\ counters[id].prev01 = 0
                    /\ Obs(id) = 1
                    /\ counters'[id].count = counters[id].count + 1
            /\ (Obs(id) = 0 \/ (Obs(id) = 1 /\ counters[id].prev01 = 1))
                 => counters'[id].count = counters[id].count]_vars

\* Two passes: the first counted a rising edge, the second saw the falling
\* edge and left the count.
C6_Witness ==
    /\ passes = 2
    /\ counters["c1"].count = 6
    /\ counters["c1"].prev01 = 0
    /\ hist["c1"].obs = 0

\* C7: on a tick of an already ticked counter that observes level 1 with a
\* clamped delta d > 0 (whole seconds), run_seconds increases by exactly d,
\* prev_level becomes 1 and last_tick_at becomes the pass time; from
\* prev_level 0, count 5, run_seconds 100, a tick 3 s later observing 1
\* gives count 6, run_seconds 103, prev_level 1.
C7_RunTimeAccrues ==
    [][Pass =>
         \A id \in DOMAIN counters :
            LET c == counters[id]
                d == Min(Max(TruncDiv(Elapsed(id), TicksPerSec), 0), SpecMaxDelta)
            IN /\ (c.last_tick_at # NULL /\ Obs(id) = 1 /\ d > 0)
                    => /\ counters'[id].run_seconds = c.run_seconds + d
                       /\ counters'[id].prev01 = 1
                       /\ counters'[id].last_tick_at = now
               /\ (/\ c.last_tick_at # NULL /\ Obs(id) = 1
                   /\ c.prev01 = 0 /\ c.count = 5 /\ c.run_seconds = 100
                   /\ Elapsed(id) = 3 * TicksPerSec)
                    => /\ counters'[id].count = 6
                       /\ counters'[id].run_seconds = 103
                       /\ counters'[id].prev01 = 1
                       /\ counters'[id].last_tick_at = c.last_tick_at + 3 * TicksPerSec]_vars

\* The worked scenario: one pass at T0 + 3 s.
C7_Witness ==
    /\ passes = 1
    /\ now = 3 * TicksPerSec
    /\ counters["c1"] = [ScenarioRow(0) EXCEPT !.count = 6, !.run_seconds = 103,
                                               !.prev01 = 1,
                                               !.last_tick_at = 3 * TicksPerSec,
                                               !.updated_at = 3 * TicksPerSec]

\* C8: in one pass run_seconds grows by at least 0 and at most
\* max(5, 3*interval) seconds, whatever the gap since last_tick_at; with the
\* interval of 2 s and a gap of ten minutes, by at most 6.
C8_RunIncreaseBounded ==
    [][Pass =>
         \A id \in DOMAIN counters :
            LET inc == counters'[id].run_seconds - counters[id].run_seconds
            IN /\ 0 <= inc
               /\ inc <= SpecMaxDelta
               /\ (counters[id].last_tick_at # NULL
                     /\ Elapsed(id) >= StallSec * TicksPerSec
                     /\ DEFAULT_INTERVAL_SEC = 2) => inc <= 6]_vars

\* The one pass so far came after the ten-minute stall with the input at 1,
\* and added six seconds.
C8_Witness ==
    /\ passes = 1
    /\ hist["c1"].stalled
    /\ counters["c1"].run_seconds = 106
    /\ counters["c1"].last_tick_at >= StallSec * TicksPerSec

\* C9 as claimed: over a streak of passes that all observe level 1,
\* run_seconds is its value at the start plus the sum of the deltas, each
\* clamped to [0, max(5, 3*interval)] seconds, and count is unchanged.
C9_SteadyRunIsSumOfClamped ==
    \A id \in DOMAIN counters :
        hist[id].n > 0
          => /\ counters[id].run_seconds * TicksPerSec
                  = hist[id].run0 * TicksPerSec + hist[id].sumTicks
             /\ counters[id].count = hist[id].count0

\* C9 as amended: run_seconds is its value at the start plus the sum of the
\* deltas, each truncated to whole seconds and then clamped, and count is
\* unchanged.
C9_SteadyRunIsSumOfWholeSeconds ==
    \A id \in DOMAIN counters :
        hist[id].n > 0
          => /\ counters[id].run_seconds = hist[id].run0 + hist[id].sumSec
             /\ counters[id].count = hist[id].count0

\* A streak of at least two passes that added whole seconds and dropped a
\* fraction.
C9_Witness ==
    /\ hist["c1"].n >= 2
    /\ hist["c1"].sumSec >= 2
    /\ hist["c1"].sumTicks > hist["c1"].sumSec * TicksPerSec
    /\ counters["c1"].run_seconds = hist["c1"].run0 + hist["c1"].sumSec

\* C10 as claimed: a pass sets last_tick_at of every counter whose
\* last_tick_at is null, sets its prev_level to the observed level, and
\* leaves its count and run_seconds.
C10_FirstTickInitialisesEvery ==
    [][Pass =>
         \A id \in DOMAIN counters :
            counters[id].last_tick_at = NULL
              => /\ counters'[id].last_tick_at # NULL
                 /\ counters'[id].prev01 = Obs(id)
                 /\ counters'[id].count = counters[id].count
                 /\ counters'[id].run_seconds = counters[id].run_seconds]_vars

\* C10 as amended: a pass does so for every counter with a null last_tick_at
\* that it observes (enabled, bound to a digital input of a device its tenant
\* has claimed, the input not null); a counter it skips keeps its row, null
\* last_tick_at included.
C10_FirstTickInitialisesObserved ==
    [][Pass =>
         \A id \in DOMAIN counters :
            counters[id].last_tick_at = NULL
              => /\ Obs(id) # NULL
                    => /\ counters'[id].last_tick_at = now
                       /\ counters'[id].prev01 = Obs(id)
                       /\ counters'[id].count = counters[id].count
                       /\ counters'[id].run_seconds = counters[id].run_seconds
                 /\ Obs(id) = NULL => counters'[id] = counters[id]]_vars

\* The never-ticked row after its first pass, one second in, input at 1: the
\* level is stored, nothing is counted or added; the placeholder is as it was.
C10_Witness ==
    /\ passes = 1
    /\ counters["c1"] = [LegacyRow EXCEPT !.last_tick_at = TicksPerSec, !.prev01 = 1,
                                          !.updated_at = TicksPerSec]
    /\ counters["c4"] = PlaceholderRow

\* C16: a write request whose insert finds a row of its lock key returns the
\* 409 "Control Action in Progress" at once: it has not called and does not
\* call the gateway, it opens no release session, and the table with the
\* holder's row is as it was.
C16_ConflictLeavesHolder ==
    [][\A r \in Requests :
         /\ (InsertLock(r) /\ LockKeyTaken(locks, req[r].lk))
              => /\ pc'[r] = "done"
                 /\ result'[r] = HttpError(409)
                 /\ result'[r].kind # "gateway"
                 /\ locks' = locks
                 /\ ~posted'[r]
                 /\ db2'[r] = "none"
         /\ (result[r] = HttpError(409) /\ pc[r] = "done" /\ pc'[r] = "done")
              => (~posted'[r] /\ db2'[r] = "none")]_vars

\* One request is calling the gateway with its row in the table; the other
\* was answered 409 without a call to the gateway.
C16_Witness ==
    \E r1, r2 \in Requests :
        /\ pc[r1] = "inflight"
        /\ Cardinality(locks) = 1
        /\ pc[r2] = "done"
        /\ result[r2] = HttpError(409)
        /\ ~posted[r2]
        /\ db2[r2] = "none"

\* C17: a write request for a widget with no binding ends with 404, one whose
\* bound device is not claimed by the caller ends with 403; either leaves the
\* lock table as it was and does not call the gateway.
C17_UnboundOrUnclaimedRejected ==
    [][\A r \in Requests, u \in Users, w \in WidgetIds :
         StartWrite(r, u, w)
           => LET found == FindBinding(u, w) IN
              /\ found = {}
                   => /\ result'[r] = HttpError(404)
                      /\ pc'[r] = "done"
                      /\ locks' = locks
                      /\ ~posted'[r]
              /\ (found # {} /\ \A b \in found : /\ b.bind_device_id # ""
                                                 /\ Lower(b.bind_field) \in ALLOWED_FIELDS
                                                 /\ ~DeviceClaimedBy(b.bind_device_id, u))
                   => /\ result'[r] = HttpError(403)
                      /\ pc'[r] = "done"
                      /\ locks' = locks
                      /\ ~posted'[r]]_vars

\* One request was refused for the missing binding and the other for the
\* device it has not claimed; the table is empty and neither has called the
\* gateway.
C17_Witness ==
    \E r1, r2 \in Requests :
        /\ result[r1] = HttpError(404) /\ pc[r1] = "done" /\ ~posted[r1]
        /\ result[r2] = HttpError(403) /\ pc[r2] = "done" /\ ~posted[r2]
        /\ locks = {}

\* ====================================================================
\* The claims about the gateway call's result (checked under GatewaySpec)
\* ====================================================================
\* The three outcomes a caller tells apart.
IsSuccess(res) == res.ok /\ ~res.pending
IsPending(res) == res.pending
IsFailed(res) == ~res.ok /\ ~res.pending

\* C14: when the POST times out or the gateway cannot be reached (any other
\* transport error), the result is pending (pending = true) and not failed.
C14_UnreachableIsPending ==
    (arg.kind \in {"timeout", "error"} /\ ret.kind = "gateway")
        => (ret.pending /\ ret.ok)

\* C15: a 2xx response gives a success (ok, not pending) with the gateway's
\* acknowledgement (the parsed body, or the raw text when it is not JSON); any
\* other status gives a failure (not ok, not pending) with the gateway's error
\* body; and every result is exactly one of success, failed, pending, told
\* apart by nodeRedOk, ok and pending.
C15_ResponseMapsToOutcome ==
    ret.kind = "gateway"
      => /\ (arg.kind = "response" /\ arg.status \in 200..299)
              => /\ IsSuccess(ret) /\ ret.nodeRedOk
                 /\ ret.status = arg.status
                 /\ ret.data.value = IF arg.body.parsed # NoneStr
                                     THEN arg.body.parsed ELSE arg.body.text
                 /\ ret.error = NoneStr
         /\ (arg.kind = "response" /\ arg.status \notin 200..299)
              => /\ IsFailed(ret) /\ ~ret.nodeRedOk
                 /\ ret.status = arg.status
                 /\ ret.data = NoData
                 /\ arg.body.text # ""
                      => ret.error = IF arg.body.parsed # NoneStr
                                     THEN arg.body.parsed ELSE arg.body.text
                 /\ ret.error # NoneStr
         /\ ret.nodeRedOk <=> IsSuccess(ret)
         /\ Cardinality({k \in {"success", "failed", "pending"} :
                           \/ k = "success" /\ IsSuccess(ret)
                           \/ k = "failed" /\ IsFailed(ret)
                           \/ k = "pending" /\ IsPending(ret)}) = 1

\* The last 2xx status with a body that is not JSON: a success carrying the
\* raw text.
C15_Witness ==
    /\ ret.kind = "gateway"
    /\ arg = Response(299, TextBody)
    /\ IsSuccess(ret)
    /\ ret.data = [raw |-> TRUE, value |-> "busy"]

UpsertArgs == CrudUsers \X WidgetIds \X CrudDevices \X CrudFields \X BOOLEAN

\* The level of an input as its device reports it to the user who claimed it,
\* 0 when that user cannot read it.
LevelFor(user_id, device_id, field) ==
    IF /\ device_id \in DOMAIN devices
       /\ devices[device_id].claimed_by_user_id = user_id
       /\ field \in DOMAIN devices[device_id]
       /\ devices[device_id][field].t = "int"
    THEN IF devices[device_id][field].n > 0 THEN 1 ELSE 0
    ELSE 0

\* Whether the request a = <<user, widget, device, field, enabled>> names
\* another device or another input than the row has.
Rebinds(row, a) ==
    \/ row.device_id # Strip(a[3])
    \/ row.field # NormalizeField(a[4])

\* --------------------------------------------------------------------
\* C13: an upsert on an existing counter that changes its device_id or its
\* field sets count and run_seconds to 0, last_tick_at to the time of the
\* request and prev01 to the current level of the new input; an upsert with
\* the same device_id and field leaves count and run_seconds as they were.
\* --------------------------------------------------------------------
UpsertOutcome(a) ==
    \A id \in FindCounter(a[1], Strip(a[2])) :
       /\ id \in DOMAIN counters'
       /\ IF Rebinds(counters[id], a)
          THEN /\ counters'[id].count = 0
               /\ counters'[id].run_seconds = 0
               /\ counters'[id].last_tick_at = now
               /\ counters'[id].prev01
                    = LevelFor(a[1], Strip(a[3]), NormalizeField(a[4]))
               /\ counters'[id].device_id = Strip(a[3])
               /\ counters'[id].field = NormalizeField(a[4])
          ELSE /\ counters'[id].count = counters[id].count
               /\ counters'[id].run_seconds = counters[id].run_seconds

C13_UpsertResetsOnRebind ==
    [][made' = made + 1 =>
         \A a \in UpsertArgs :
            UpsertOutcome(a) \/ ~UpsertCounter(a[1], a[2], a[3], a[4], a[5])]_vars

\* The counter that started on D1 with count 5 and 100 run seconds has been
\* pointed at d1 one second later: its totals are 0 and its timer restarts at
\* the time of the request.
C13_Witness ==
    /\ made = 1
    /\ now = TicksPerSec
    /\ "c1" \in DOMAIN counters
    /\ counters["c1"].device_id = "d1"
    /\ counters["c1"].field = "di2"
    /\ counters["c1"].count = 0
    /\ counters["c1"].run_seconds = 0
    /\ counters["c1"].prev01 = 0
    /\ counters["c1"].last_tick_at = now

\* --------------------------------------------------------------------
\* C12: over the passes and the endpoint requests, count and run_seconds of
\* a counter that is enabled never decrease and are never negative, except in
\* the step of a reset of that counter or of an upsert that changes its
\* device_id or field.
\* --------------------------------------------------------------------
IsResetOf(id) ==
    \E u \in CrudUsers, w \in WidgetIds :
        /\ ResetCounter(u, w)
        /\ id \in FindCounter(u, Strip(w))

IsRebindOf(id) ==
    \E a \in UpsertArgs :
        /\ UpsertCounter(a[1], a[2], a[3], a[4], a[5])
        /\ id \in FindCounter(a[1], Strip(a[2]))
        /\ Rebinds(counters[id], a)

C19_PassAtomic ==
    [][/\ PassLoad(DEFAULT_INTERVAL_SEC) => counters' = counters
       /\ PassFail => counters' = counters
       /\ PassCommit =>
            \A id \in DOMAIN txn.writes \cap DOMAIN counters :
               /\ id \in DOMAIN counters'
               /\ counters'[id].prev01 = txn.writes[id].prev01
               /\ counters'[id].last_tick_at = txn.at
               /\ counters'[id].updated_at = txn.at
               /\ ~txn.writes[id].first =>
                     /\ counters'[id].count = txn.writes[id].count
                     /\ counters'[id].run_seconds = txn.writes[id].run_seconds]_vars

\* A pass that had issued UPDATEs for two counters failed: both rows still
\* have the level 0 they had, while the input of both is at 1.
C19_Witness ==
    /\ txn.last = "aborted"
    /\ txn.n = 2
    /\ InLive(devices, 1, "D1")
    /\ To01(devices["D1"]["di2"]) = 1
    /\ "c1" \in DOMAIN counters
    /\ counters["c1"] = ScenarioRow(0)
    /\ \E id \in DOMAIN counters \ {"c1"} :
         /\ counters[id].user_id = 1
         /\ counters[id].enabled
         /\ counters[id].device_id = "D1"
         /\ counters[id].field = "di2"
         /\ counters[id].prev01 = 0
         /\ counters[id].count = 0

\* Whether the bulk read of a pass that starts now has no row for the
\* counter's (user_id, device_id): the device is deleted, unclaimed or claimed
\* by another user.
AbsentFromBulkRead(c) ==
    /\ c.enabled
    /\ c.device_id # ""
    /\ ~(/\ c.device_id \in DOMAIN devices
         /\ devices[c.device_id].claimed_by_user_id = c.user_id)

\* --------------------------------------------------------------------
\* C20: a counter whose (user_id, device_id) the bulk read of a pass does not
\* return is left as it is by that pass, and the pass does not fail on it: it
\* goes on, issues the UPDATEs of the other counters and reaches its commit,
\* which changes only the rows an UPDATE was issued for.
\* --------------------------------------------------------------------
C20_AbsentDeviceSkipped ==
    [][/\ PassLoad(DEFAULT_INTERVAL_SEC) =>
            /\ txn'.pc = "loaded"
            /\ counters' = counters
            /\ \A id \in DOMAIN counters :
                 AbsentFromBulkRead(counters[id]) => id \notin DOMAIN txn'.writes
            /\ \A id \in DOMAIN counters :
                 (/\ ~AbsentFromBulkRead(counters[id])
                  /\ counters[id].enabled
                  /\ counters[id].device_id = "D1"
                  /\ counters[id].field = "di2"
                  /\ counters[id].last_tick_at # NULL
                  /\ counters[id].prev01 # LevelFor(counters[id].user_id, "D1", "di2"))
                     => id \in DOMAIN txn'.writes
       /\ PassCommit =>
            \A id \in DOMAIN counters \ DOMAIN txn.writes :
               /\ id \in DOMAIN counters'
               /\ counters'[id] = counters[id]]_vars

\* A pass committed the rising edge of D1's input for the counter of user 1,
\* who holds the claim, and left the enabled counter that user 2 has on the
\* same device, which the bulk read does not return for user 2, as it was.
C20_Witness ==
    /\ txn.last = "committed"
    /\ txn.n = 1
    /\ InLive(devices, 1, "D1")
    /\ To01(devices["D1"]["di2"]) = 1
    /\ "c1" \in DOMAIN counters
    /\ counters["c1"].device_id = "D1"
    /\ counters["c1"].count = 6
    /\ counters["c1"].prev01 = 1
    /\ AbsentFromBulkRead(counters["c3"])
    /\ counters["c3"] = ForeignRow

\* --------------------------------------------------------------------
\* C18: a pass that raises does not end the runner: the task goes to its
\* sleep, and unless it is cancelled there it starts another pass; a started
\* runner goes on starting passes for ever unless it is cancelled.
\* --------------------------------------------------------------------
C18_RunnerSurvivesFailure ==
    /\ [][RunnerPassFails => runner'.pc = "sleep"]_vars
    /\ (runner.pc = "sleep" /\ runner.failed)
          ~> (runner.pc = "pass" \/ runner.pc = "cancelled")
    /\ [](runner.pc # "none" =>
            ([]<>(runner.pc = "pass") \/ <>(runner.pc = "cancelled")))

\* The last pass raised, the runner slept, and it is in its next pass.
C18_Witness ==
    /\ runner.pc = "pass"
    /\ runner.failed
    /\ now > 0

\* The device tables that differ from devs at most in the inputs of the
\* devices that user_id has not claimed.
ForeignVariants(devs, user_id) ==
    { alt \in [DOMAIN devs -> [claimed_by_user_id : Users \cup {NULL},
                               di2 : RawValues]] :
        \A d \in DOMAIN devs :
           /\ alt[d].claimed_by_user_id = devs[d].claimed_by_user_id
           /\ devs[d].claimed_by_user_id = user_id => alt[d] = devs[d] }

\* --------------------------------------------------------------------
\* C21: what a pass does to a counter depends only on the devices that the
\* counter's user has claimed when the pass reads them: with any other inputs
\* on the devices of other users (or of nobody), the pass issues the same
\* UPDATE for the counter, or none in both cases.
\* --------------------------------------------------------------------
C21_ForeignInputsDoNotCount ==
    [][PassLoad(DEFAULT_INTERVAL_SEC) =>
         \A id \in DOMAIN counters :
            \A alt \in ForeignVariants(devices, counters[id].user_id) :
               LET c == counters[id]
                   cur01 == Cur01(c, alt)
                   new == TickCounter(c, cur01, now, DEFAULT_INTERVAL_SEC)
               IN IF cur01 = NULL \/ new = c
                  THEN id \notin DOMAIN txn'.writes
                  ELSE /\ id \in DOMAIN txn'.writes
                       /\ txn'.writes[id].prev01 = new.prev01
                       /\ txn'.writes[id].count = new.count
                       /\ txn'.writes[id].run_seconds = new.run_seconds]_vars

\* User 1 has given up the claim on D1 and its input has risen since: the
\* pass that has just read the devices has no UPDATE for user 1's enabled
\* counter on D1, nor for any other.
C21_Witness ==
    /\ txn.pc = "loaded"
    /\ DOMAIN txn.writes = {}
    /\ "D1" \in DOMAIN devices
    /\ devices["D1"].claimed_by_user_id = NULL
    /\ To01(devices["D1"]["di2"]) = 1
    /\ "c1" \in DOMAIN counters
    /\ counters["c1"] = ScenarioRow(0)

C23_SecondPassWritesNothing ==
    [][Pass =>
         \A id \in DOMAIN counters :
            (/\ hist[id].obs # NULL
             /\ hist[id].obs = Obs(id)
             /\ counters[id].last_tick_at = now)
               => counters'[id] = counters[id]]_vars

\* A pass one second after the start counted the rising edge and added the
\* second; the pass run again at once (a steady pass that measured no time)
\* left count at 6 and run_seconds at 101.
C23_Witness ==
    /\ passes = 2
    /\ now = TicksPerSec
    /\ hist["c1"].was = 1
    /\ hist["c1"].obs = 1
    /\ hist["c1"].n = 1
    /\ hist["c1"].sumTicks = 0
    /\ counters["c1"].count = 6
    /\ counters["c1"].run_seconds = 101
    /\ counters["c1"].last_tick_at = now

\* --------------------------------------------------------------------
\* C29: on a counter that has been ticked before, a pass that changes none
\* of count, prev01 and run_seconds leaves the whole row, last_tick_at and
\* updated_at included, as it is; a pass that changes one of them has
\* observed the counter and stamps the row with its time.
\* --------------------------------------------------------------------
C29_WrittenOnlyOnChange ==
    [][Pass =>
         \A id \in DOMAIN counters :
            counters[id].last_tick_at # NULL =>
               IF /\ counters'[id].count = counters[id].count
                  /\ counters'[id].prev01 = counters[id].prev01
                  /\ counters'[id].run_seconds = counters[id].run_seconds
               THEN counters'[id] = counters[id]
               ELSE /\ Obs(id) # NULL
                    /\ counters'[id].prev01 = Obs(id)
                    /\ counters'[id].last_tick_at = now
                    /\ counters'[id].updated_at = now]_vars

\* Two passes have observed the input at 0 and the clock is at the end of
\* its window: the row is the one the counter started with, last_tick_at and
\* updated_at still 0.
C29_Witness ==
    /\ passes = 2
    /\ now = TickMaxSec * TicksPerSec
    /\ hist["c1"].was = 0
    /\ hist["c1"].obs = 0
    /\ counters["c1"] = ScenarioRow(0)

\* --------------------------------------------------------------------
\* C28: the run time a pass adds to a counter is at most the time that has
\* passed since the previous pass. Stated for the passes of the background
\* task that follow the pass before them by one interval: the task has run
\* without a restart or a failed pass (as many passes as sleeps), so the
\* previous pass ran interval_sec seconds ago.
\* --------------------------------------------------------------------
C28_RunAddedWithinElapsed ==
    [][(/\ RunnerPass(DEFAULT_INTERVAL_SEC)
        /\ passes >= 1
        /\ now = passes * DEFAULT_INTERVAL_SEC * TicksPerSec)
          => \A id \in DOMAIN counters :
                counters'[id].run_seconds - counters[id].run_seconds
                   <= DEFAULT_INTERVAL_SEC]_vars

\* ====================================================================
\* The claims about the passes racing with the endpoints (checked under
\* CounterSpec)
\* ====================================================================

\* --------------------------------------------------------------------
\* C30: a pass never writes to a row that is disabled or absent when the pass
\* writes: the rows that are disabled at the commit are left as they are, and
\* the commit neither removes nor creates a row.
\* --------------------------------------------------------------------
C30_NoWriteToDisabledOrAbsent ==
    [][PassCommit =>
         /\ DOMAIN counters' = DOMAIN counters
         /\ \A id \in DOMAIN counters :
               ~counters[id].enabled => counters'[id] = counters[id]]_vars

\* --------------------------------------------------------------------
\* C27: a counter that has been reset (by POST /reset or by an upsert that
\* changes its binding) while a pass held it keeps the reset totals when the
\* pass commits: 0, plus at most what one pass adds (one edge, max_delta
\* seconds), never the totals from before the reset.
\* --------------------------------------------------------------------
C27_ResetSurvivesRacingPass ==
    [][PassCommit =>
         \A id \in DOMAIN txn.writes \cap DOMAIN counters :
            (/\ counters[id].count = 0
             /\ counters[id].run_seconds = 0)
               => /\ counters'[id].count <= 1
                  /\ counters'[id].run_seconds <= MaxDelta(DEFAULT_INTERVAL_SEC)]_vars

\* ====================================================================
\* The claims about stopping the background task (checked under RunnerSpec)
\* ====================================================================

\* --------------------------------------------------------------------
\* C25: stop_device_counters_tick leaves the task cancelled, and a cancelled
\* task starts no pass and writes no counter; only start_device_counters_tick
\* brings a pass again.
\* --------------------------------------------------------------------
C25_NoPassAfterStop ==
    /\ [][StopRunner => runner'.pc = "cancelled"]_vars
    /\ [][runner.pc = "cancelled" =>
            \/ StartRunner
            \/ /\ runner' = runner
               /\ counters' = counters
               /\ passes' = passes]_vars

\* The task has been cancelled in the sleep after its second pass, and the
\* input has changed since: the counter still shows what the second pass
\* wrote.
C25_Witness ==
    /\ runner.pc = "cancelled"
    /\ passes = 2
    /\ "c1" \in DOMAIN counters
    /\ "D1" \in DOMAIN devices
    /\ counters["c1"].prev01 = 1
    /\ To01(devices["D1"].di2) = 0

\* ====================================================================
\* The claims about the sweep of the expired locks (checked under Spec)
\* ====================================================================

CounterKeys ==
    { <<counters[id].user_id, counters[id].dashboard_id, counters[id].widget_id>> :
        id \in DOMAIN counters }

C40_SweepDeletesExactlyExpired ==
    [][\A r \in Requests :
         (pc[r] = "cleanup" /\ pc'[r] # "cleanup")
           => /\ pc'[r] = "insert"
              /\ result'[r] = result[r]
              /\ \/ locks' = locks
                 \/ locks' = { row \in locks : ~(row.expires_at <= now) }
              /\ \A row \in locks : row.expires_at > now => row \in locks']_vars

\* A request is past its sweep at the end of the time to live, and the table
\* holds the one row of another request, of the other key, that has not
\* expired.
C40_Witness ==
    \E r, q \in Requests :
        /\ r # q
        /\ pc[r] = "insert"
        /\ pc[q] \in {"close", "inflight"}
        /\ now >= HoldTicks
        /\ Cardinality(locks) = 1
        /\ \A row \in locks : /\ row.expires_at > now
                              /\ row.lock_key # req[r].lk

\* --------------------------------------------------------------------
\* C37: the release step of a request removes no row but the one the request
\* inserted (the row with its lock key and the expiry it computed).
\* --------------------------------------------------------------------
C37_ReleaseRemovesOwnRowOnly ==
    [][\A r \in Requests :
         (pc[r] = "releasing" /\ pc'[r] = "done")
           => \A row \in locks \ locks' : row = LockRow(r)]_vars

\* ====================================================================
\* The claims about the counter endpoints (checked under CounterSpec)
\* ====================================================================

\* A request of user_id to one of the endpoints that write.
RequestBy(user_id) ==
    \E w \in WidgetIds :
       \/ CreatePlaceholder(user_id, w)
       \/ ResetCounter(user_id, w)
       \/ DeleteCounter(user_id, w)
       \/ \E d \in CrudDevices, f \in CrudFields, e \in BOOLEAN :
             UpsertCounter(user_id, w, d, f, e)

\* The rows of the other users are there after the step as they were.
OthersUntouched(user_id) ==
    \A id \in DOMAIN counters :
       counters[id].user_id # user_id
         => /\ id \in DOMAIN counters'
            /\ counters'[id] = counters[id]

C34_PlaceholderCreatesOnceAndReturnsExisting ==
    [][\A r \in InsertRequests :
         /\ (pc[r] = "insert" /\ pc'[r] = "done"
                /\ req[r].op = "create-placeholder" /\ result'[r].kind = "row")
               => \E id \in DOMAIN counters' \ DOMAIN counters :
                     /\ result'[r].data = counters'[id]
                     /\ counters'[id].enabled = FALSE
                     /\ counters'[id].device_id = ""
                     /\ counters'[id].field = "di1"
                     /\ counters'[id].count = 0
                     /\ counters'[id].run_seconds = 0
                     /\ counters'[id].last_tick_at = NULL
         /\ \A u \in Users, dash \in DashboardInputs :
               (/\ pc[r] # "insert"
                /\ pc'[r] # pc[r] \/ result'[r] # result[r]
                /\ CounterKeyTaken(counters, u, NormalizeDashboardIdText(dash), "w1")
                /\ PlaceholderFind(r, u, "w1", dash))
                 => /\ counters' = counters
                    /\ pc'[r] = "done"
                    /\ result'[r].kind = "row"
                    /\ \E id \in FindCounterOn(u, NormalizeDashboardIdText(dash),
                                                "w1") :
                          result'[r].data = counters[id]]_vars

\* A create-placeholder request of user 2 has inserted its row, an upsert has
\* bound and enabled that row, and a second create-placeholder request for
\* the key has returned the bound row.
C34_Witness ==
    \E r \in Requests, id \in DOMAIN counters \ {"c1"} :
        /\ pc[r] = "done"
        /\ result[r].kind = "row"
        /\ result[r].data = counters[id]
        /\ counters[id].enabled
        /\ counters[id].device_id = "D1"
        /\ counters[id].user_id = 2

\* ====================================================================
\* The claims about the rows the operations produce (checked under
\* ProducedSpec)
\* ====================================================================

C36_ClaimIsExclusive ==
    [][/\ \A r \in ClaimRequests, u \in Users, d \in DOMAIN devices :
            (/\ devices[d].claimed_by_user_id \notin {NULL, u}
             /\ pc'[r] = "done"
             /\ ClaimRead(r, u, d))
              => /\ result'[r] = HttpError(409)
                 /\ devices' = devices
       /\ \A d \in DOMAIN devices :
            (/\ devices[d].claimed_by_user_id # NULL
             /\ devices'[d].claimed_by_user_id # devices[d].claimed_by_user_id)
              => /\ devices'[d].claimed_by_user_id = NULL
                 /\ \E r \in ClaimRequests :
                       /\ pc[r] = "unclaim"
                       /\ pc'[r] = "done"
                       /\ req[r].user_id = devices[d].claimed_by_user_id
                       /\ req[r].device_id = d
       /\ \A r \in ClaimRequests :
            (pc[r] = "claim" /\ pc'[r] = "done" /\ result'[r].kind = "claimed")
              => devices'[req[r].device_id].claimed_by_user_id = req[r].user_id]_vars

\* ====================================================================
\* The claims about the tasks of the runner (checked under TaskSpec)
\* ====================================================================

\* --------------------------------------------------------------------
\* C39: whatever the calls of start_device_counters_tick and
\* stop_device_counters_tick, at most one task of the runner is alive (created
\* and not done).
\* --------------------------------------------------------------------
C39_AtMostOneRunnerAlive ==
    Cardinality({ i \in DOMAIN runner.tasks : TaskAlive(i) }) <= 1

\* ====================================================================
\* The claims about the passes of two processes (checked under OverlapSpec)
\* ====================================================================

\* --------------------------------------------------------------------
\* C31: with the passes of two processes overlapping on the counter and its
\* input rising once, the count is never more than one above where it
\* started, and no commit of a pass lowers the count or the run_seconds that
\* the table holds.
\* --------------------------------------------------------------------
C31_OverlappingPassesCountOnceAndNeverLower ==
    /\ [](counters["c1"].count <= ScenarioRow(0).count + 1)
    /\ [][\A id \in DOMAIN counters :
            /\ counters'[id].count >= counters[id].count
            /\ counters'[id].run_seconds >= counters[id].run_seconds]_vars

\* ====================================================================
\* The claims about the normalizers and the coercions (checked under
\* PureSpec)
\* ====================================================================

\* The names a field string stands for when case and the blanks around it
\* are ignored: blanks, then d i or i n in either case and a digit 1..6,
\* then blanks.
AcceptedAs(s) ==
    { <<"d", "i", s[a + 3]>> :
        a \in { a \in 0..Len(s) :
                 /\ a + 3 <= Len(s)
                 /\ \A i \in 1..a : s[i] = " "
                 /\ \A i \in (a + 4)..Len(s) : s[i] = " "
                 /\ s[a + 3] \in {"1", "2", "3", "4", "5", "6"}
                 /\ \/ s[a + 1] \in {"d", "D"} /\ s[a + 2] \in {"i", "I"}
                    \/ s[a + 1] \in {"i", "I"} /\ s[a + 2] \in {"n", "N"} } }

\* --------------------------------------------------------------------
\* C33: for every string, both normalizers return: a string that is di1..di6
\* or in1..in6 in any case with blanks around it gives its canonical name
\* di1..di6 from both, and every other string is invalid for both (None from
\* the tick engine's, "" from the endpoints').
\* --------------------------------------------------------------------
C33_NormalizersAgree ==
    ret.kind = "fields"
      => IF AcceptedAs(arg.s) = {}
         THEN ret.tick = NoneChars /\ ret.crud = << >>
         ELSE ret.tick \in AcceptedAs(arg.s) /\ ret.crud = ret.tick

\* " IN1" was given: both normalizers returned di1.
C33_Witness ==
    /\ ret.kind = "fields"
    /\ arg.s = <<" ", "I", "N", "1">>
    /\ ret.tick = <<"d", "i", "1">>
    /\ ret.crud = <<"d", "i", "1">>

\* What the level of a value is to be: absent for null only; a boolean as it
\* is; 1 for a number that is not zero; for a string, 1 for the on-words, 0
\* for the off-words, 1 for a numeric string other than zero and 0 for zero,
\* else 1 unless the string is empty.
ClaimedLevel(v) ==
    IF v.t = "null" THEN NULL
    ELSE IF v.t = "bool" THEN (IF v.b THEN 1 ELSE 0)
    ELSE IF v.t = "int" THEN (IF v.n # 0 THEN 1 ELSE 0)
    ELSE LET s == LowerChars(StripChars(v.s))
         IN IF s \in OnWords THEN 1
            ELSE IF s \in OffWords THEN 0
            ELSE IF ParsesAsFloat(s)
                 THEN (IF \E i \in DOMAIN s : s[i] \in Digits \ {"0"} THEN 1 ELSE 0)
            ELSE IF v.s # << >> THEN 1 ELSE 0

\* --------------------------------------------------------------------
\* C32: both _to01 return absent for null only, 1 for every truthy, on-like
\* or nonzero value, negative numbers and numeric strings other than zero
\* included, and 0 for false, zero and the off-like values.
\* --------------------------------------------------------------------
C32_To01NonzeroIsOne ==
    ret.kind = "levels"
      => /\ ret.tick = ClaimedLevel(arg.v)
         /\ ret.crud = ClaimedLevel(arg.v)

====
